---- MODULE Spec2Model ----
(***************************************************************************)
(* State-machine model of the TrackLab system monitor service              *)
(* (src/system_monitor): the lifecycle coordinator of main.rs (listener    *)
(* handshake, parent watchdog, one-shot shutdown channel, RPC serve and    *)
(* HTTP join), the lock discipline of the HTTP handlers of rest_api.rs and *)
(* the rate windows of network_monitor.rs and disk_monitor.rs.             *)
(***************************************************************************)
EXTENDS Integers, Sequences, FiniteSets, TLC

\* ------------------------------------------------------------------ bounds
\* Number of RPC clients that issue TearDown calls concurrently.
NumClients == 2
\* Number of concurrently running HTTP request handlers.
NumHandlers == 3
\* The send counter of the shutdown channel saturates here.
SendCap == 2
\* Width in bits of the model's u64/i64 (the source's are 64 bits wide).
WordBits == 11
\* Resolution of the model's Instant: ticks per second.
TicksPerSec == 2
\* Largest number of ticks that pass between two sample calls.
MaxDt == 1
\* Number of sample calls made on a monitor.
MaxCalls == 3
\* Number of whole metrics requests that are followed.
MaxRequests == 2
\* disk_monitor.rs 173-174: bytes per sector.
SectorBytes == 512

Clients == 1..NumClients
Handlers == 1..NumHandlers

\* Process ids of the environment: the launching parent, the process that
\* adopts orphans, and a pid that is not the launcher.
OsPids == [launcher |-> 7, init |-> 1, stale |-> 9]
\* Values of --parent-pid tried (default 0 = no parent to watch).
ParentPidArgs == {-1, 0, OsPids.launcher, OsPids.stale}
\* Ports the OS may hand out for a bind to port 0.
Ports == {49152, 49153}
Platforms == {"unix", "windows"}
NoToken == << >>
\* The monitor kinds: the four domain monitors and the accelerator aggregator.
Monitors == {"cpu", "memory", "disk", "network", "gpu"}
\* What main constructs for the REST surface (main.rs 424, rest_api.rs 149-180).
RestMonitors == {"gpu", "cpu", "memory", "disk", "network"}

VARIABLES
    platform,         \* target_os of the build
    args,             \* parsed command line (Args)
    ppid,             \* what getppid() returns now
    mainPc,           \* position of main()
    mainResult,       \* "running" | "Ok" | "Err"
    shutdown_sender,  \* the Option in Arc<Mutex<Option<Sender>>>: "Some" | "None"
    senderLock,       \* holder of that tokio Mutex: <<"free">> | <<"watchdog">> | <<"client", c>>
    chan,             \* oneshot channel: "armed" | "fired" | "consumed"
    sendCount,        \* number of send() calls made on the channel
    wd,               \* watchdog task: "none"|"sleeping"|"locking"|"firing"|"stopped"
    wdSawGone,        \* the watchdog has polled and found the parent gone
    wdPollAfterGone,  \* the watchdog polled again after that
    wdSends,          \* sends made by the watchdog
    gpuState,         \* the RPC service's GpuMonitors: "active" | "shut_down"
    tdPc,             \* per client: position inside tear_down
    tdAfter,          \* per client: the call began after some tear_down returned
    tdResult,         \* per client: outcome of its call ("none" while in flight)
    tdReturned,       \* some tear_down call has returned
    rpc,              \* tonic server: "not_started"|"serving"|"draining"|"stopped"
    http,             \* axum server: "off" | "serving"
    listener,         \* RPC listener: "none" | "tcp" | "unix"
    port,             \* local port of the TCP listener (0 = none)
    handshake,        \* content of the portfile (NoToken = not written)
    handshakeWrites,  \* number of writes of the portfile
    bindAttempts,     \* number of RPC listener bind attempts
    bindFailed,       \* the RPC listener bind returned an error
    sockFile,         \* the unix socket path exists in the filesystem
    cleanup,          \* ctrl_c cleanup task: "none" | "waiting" | "done"
    healthSeen,       \* per /api/health reply: was the portfile written then
    constructed,      \* per monitor kind: number of instances constructed so far
    surfaceGpu,       \* per surface: which GpuMonitors instance it reads (0 = none)
    hPc,              \* per HTTP handler: position
    hHeld,            \* per HTTP handler: set of monitor locks held
    lockQueue,        \* per monitor lock: FIFO of handlers waiting for it
    subject,          \* the monitor whose sample calls are followed: "network" | "disk" | "memory"
    overflow_checks,  \* the build panics on u64 overflow (debug) instead of wrapping
    now,              \* Instant::now(), in ticks
    calls,            \* number of sample calls made on the subject
    net,              \* the NetworkMonitor: [prev, prev_time]
    netRead,          \* the totals of the latest get_totals
    netOut,           \* the latest NetworkMonitor snapshot: [status, metrics]
    disk,             \* the DiskMonitor: [prev_disk_stats, prev_time]
    diskRead,         \* the latest procfs::diskstats() result (None before any)
    diskOut,          \* the latest DiskMonitor snapshot: [status, metrics]
    resets,           \* history: the counters the latest reading showed below the window
    mounts,           \* what disks.list() gives: the mounted filesystems
    memRead,          \* the latest sysinfo memory reading (None before any)
    memOut,           \* the latest MemoryMonitor snapshot: [status, metrics]
    snap,             \* the five snapshots a metrics request has collected
    dto,              \* the SystemMetricsResponse built from them (None before)
    sampled,          \* all_metrics of the latest RPC sample
    rpcReply          \* the latest GetStats or GetMetadata reply

cfgVars == <<platform, args>>
sigVars == <<shutdown_sender, senderLock, chan, sendCount>>
wdVars == <<wd, wdSawGone, wdPollAfterGone, wdSends>>
tdVars == <<gpuState, tdPc, tdAfter, tdResult, tdReturned>>
lstVars == <<listener, port, handshake, handshakeWrites, bindAttempts, bindFailed,
             sockFile, cleanup>>
instVars == <<constructed, surfaceGpu>>
lifeVars == <<platform, args, ppid, mainPc, mainResult, shutdown_sender, senderLock,
              chan, sendCount, wd, wdSawGone, wdPollAfterGone, wdSends, gpuState,
              tdPc, tdAfter, tdResult, tdReturned, rpc, http, listener, port,
              handshake, handshakeWrites, bindAttempts, bindFailed, sockFile,
              cleanup, healthSeen, constructed, surfaceGpu>>
httpVars == <<hPc, hHeld, lockQueue>>
gaugeVars == <<mounts, memRead, memOut>>
apiVars == <<snap, dto>>
rpcVars == <<sampled, rpcReply>>
monVars == <<subject, overflow_checks, now, calls, net, netRead, netOut, disk,
             diskRead, diskOut, resets, gaugeVars, apiVars, rpcVars>>
vars == <<lifeVars, httpVars, monVars>>

\* ------------------------------------------------------- pure helpers (main.rs)

\* is_parent_alive: getppid() == parent_pid; the windows build always says TRUE.
IsParentAlive(plat, cur_ppid, parent_pid) ==
    IF plat = "windows" THEN TRUE ELSE cur_ppid = parent_pid

\* create_listener: windows always uses TCP, otherwise --listen-on-localhost.
UseTcp(plat, listen_on_localhost) ==
    IF plat = "windows" THEN TRUE ELSE listen_on_localhost

\* The socket file name: wandb_gpu_stats-<parent_pid>-<pid>-<ts>.sock in temp_dir.
SocketPath(parent_pid) == <<"tmp", "wandb_gpu_stats", parent_pid, "sock">>

\* A token that carries the wrong prefix for the transport.
HandshakeTokenSwapped(use_tcp, p, path) ==
    IF use_tcp THEN <<"unix=", path>> ELSE <<"sock=", p>>

\* format!("sock={}", port) / format!("unix={}", path_str)
HandshakeToken(use_tcp, p, path) ==
    IF use_tcp THEN <<"sock=", p>> ELSE <<"unix=", path>>

\* A bind error that is ignored: startup goes on to write the token.
AfterBindIgnoreError(ok) == "write_token"

\* `bind(..).await?` in create_listener and `create_listener(&args).await?` in
\* main: an error returns from main at once.
AfterBind(ok) == IF ok THEN "write_token" ELSE "exited"

\* main joining the REST task before it serves RPC.
MainAfterJoinFirst(pc) ==
    CASE pc = "new_service" -> "start_rest"
      [] pc = "start_rest"  -> "bind"
      [] pc = "write_token" -> "join_rest"
      [] pc = "join_rest"   -> "serve"
      [] pc = "serving"     -> "exited"
      [] OTHER              -> "exited"

\* main returning as soon as the RPC server has stopped, without awaiting the
\* REST task.
MainAfterNoJoin(pc) ==
    CASE pc = "new_service" -> "start_rest"
      [] pc = "start_rest"  -> "bind"
      [] pc = "write_token" -> "serve"
      [] OTHER              -> "exited"

\* Program order of main (lines 412-481).
MainAfter(pc) ==
    CASE pc = "new_service" -> "start_rest"
      [] pc = "start_rest"  -> "bind"
      [] pc = "write_token" -> "serve"
      [] pc = "serving"     -> "join_rest"
      [] pc = "join_rest"   -> "exited"
      [] OTHER              -> "exited"

\* A failed bind of the HTTP port that is survived: startup goes on to the RPC
\* listener without a REST task.
AfterRestBindSurvived(ok) == MainAfter("start_rest")

\* `TcpListener::bind(rest_addr).await?` (main.rs 438): an error returns from
\* main at once.
AfterRestBind(ok) == IF ok THEN MainAfter("start_rest") ELSE "exited"

\* Option::take that leaves the sender in the slot.
TakeSenderKeep(slot) == [taken |-> slot = "Some", slot |-> slot]

\* Option::take on the shared slot: yields the sender if present, leaves None.
TakeSender(slot) == [taken |-> slot = "Some", slot |-> "None"]

\* oneshot Sender::send: Err iff the receiver has been dropped (it is dropped
\* once the serve future has consumed the value).
SendResult(ch) == IF ch = "consumed" THEN "Err" ELSE "Ok"

\* The channel after a send: the value is stored while the receiver lives.
ChanAfterSend(ch) == IF ch = "armed" THEN "fired" ELSE ch

\* GpuMonitors::shutdown (monitors module): leaves the aggregator shut down.
GpuShutdown(s) == "shut_down"

\* A watchdog loop without the `break`: it goes back to sleep after firing.
WatchdogAfterFireNoBreak == "sleeping"

\* The `break` after the watchdog has fired (main.rs 169): the task ends.
WatchdogAfterFire == "stopped"

\* A watchdog loop body that goes on to fire whatever the poll found.
WatchdogAfterPollFires(alive) == "locking"

\* Watchdog loop body (main.rs 161-171): keep sleeping while the parent is
\* alive, otherwise go on to lock the sender slot.
WatchdogAfterPoll(alive) == IF alive THEN "sleeping" ELSE "locking"

Bump(n) == IF n < SendCap THEN n + 1 ELSE n

Alive == mainPc # "exited"

\* ------------------------------------------- fixed-width arithmetic (Rust u64/i64)

\* The model's u64 and i64 are WordBits wide.
Modulus == 2 ^ WordBits
U64Max == Modulus - 1
I64Max == (Modulus \div 2) - 1

\* Option<T>
None == << >>
Some(x) == <<x>>
IsSome(o) == o # None
Unwrap(o) == o[1]

\* `as i64` on a u64 reinterprets the bits (two's complement).
AsI64(u) == IF u > I64Max THEN u - Modulus ELSE u

\* A release-build `+` / `*` on u64 wraps.
WrapU64(x) == x % Modulus

\* A subtraction that wraps around below zero.
WrappingSub(a, b) == (a + Modulus - b) % Modulus

\* u64::saturating_sub
SaturatingSub(a, b) == IF a > b THEN a - b ELSE 0

\* Instant::duration_since: zero if prev is not earlier than now.
Elapsed(prev, t) == IF t > prev THEN t - prev ELSE 0

\* `(x as f64 / elapsed) as u64` with elapsed = ticks / TicksPerSec seconds: the
\* quotient truncated toward zero, saturating at u64::MAX. (The rounding of
\* `x as f64` above 2^53 is not modelled.)
RatePerSec(x, ticks) ==
    LET q == (x * TicksPerSec) \div ticks
    IN IF q > U64Max THEN U64Max ELSE q

\* Counter values the platform may report: bytes at either end of the u64
\* range, packets at small values.
ByteVals == {0, U64Max}
PacketVals == {0, 1}

\* ------------------------------------------- NetworkMonitor (network_monitor.rs)

NetFamilies == {"rx_bytes", "tx_bytes", "rx_packets", "tx_packets"}

\* What get_totals (151-166) returns.
NetReadings ==
    [rx_bytes : ByteVals, tx_bytes : ByteVals,
     rx_packets : PacketVals, tx_packets : PacketVals]

\* Metric keys are <<domain, family, suffix>>, e.g. network.rx_bytes_per_sec.
NetTotalKeys == {<<"network", f, "_total">> : f \in NetFamilies}
NetRateKeys ==
    {<<"network", f, "_per_sec">> : f \in NetFamilies}
        \cup {<<"network", "bandwidth_bytes", "_per_sec">>}
IsRateKey(k) == k[3] = "_per_sec"
NoMetrics == [k \in {} |-> 0]

\* A constructor that also stamps the window with the construction time.
NetworkMonitorNewTimed(totals) == [prev |-> totals, prev_time |-> Some(0)]

\* NetworkMonitor::new 25-47: the previous counters are primed from a first
\* reading, prev_time is None. prev[f] stands for the field prev_<f>.
NetworkMonitorNew(totals) == [prev |-> totals, prev_time |-> None]

\* A window update that keeps the old counters and only moves the timestamp.
NetWindowAfterKeepCounters(mon, totals, t) == [prev |-> mon.prev, prev_time |-> Some(t)]

\* get_metrics 121-126: "Update previous values", reached on every call.
NetWindowAfter(mon, totals, t) == [prev |-> totals, prev_time |-> Some(t)]

\* A rate condition that also wants more than one tick of elapsed time.
NetEmitsRatesLate(mon, t) ==
    IsSome(mon.prev_time) /\ Elapsed(Unwrap(mon.prev_time), t) > 1

\* get_metrics 78-81: rates are computed iff prev_time is Some and elapsed > 0.0.
NetEmitsRates(mon, t) ==
    IsSome(mon.prev_time) /\ Elapsed(Unwrap(mon.prev_time), t) > 0

\* get_metrics 83-111: the per-second rate of family f (a u64) over el ticks.
NetRate(mon, totals, el, f) == RatePerSec(SaturatingSub(totals[f], mon.prev[f]), el)

\* get_metrics 113: rx_bytes_per_sec + tx_bytes_per_sec, before any wrapping.
NetBandwidth(mon, totals, el) ==
    NetRate(mon, totals, el, "rx_bytes") + NetRate(mon, totals, el, "tx_bytes")

\* NetworkMonitor::get_metrics 50-148 at Instant t with get_totals = totals.
\* checks = the build has overflow checks (the `+` at 113 panics instead of
\* wrapping). Result: the snapshot and the monitor afterwards. The gauges
\* network.connections_active and network.interface_count (128-145) neither
\* read nor write the window and are left out of the snapshot.
NetworkGetMetrics(mon, totals, t, checks) ==
    LET emit == NetEmitsRates(mon, t)
        el   == Elapsed(Unwrap(mon.prev_time), t)
        bw   == NetBandwidth(mon, totals, el)
        keys == NetTotalKeys \cup (IF emit THEN NetRateKeys ELSE {})
        value(k) ==
            IF k[3] = "_total" THEN AsI64(totals[k[2]])
            ELSE IF k[2] = "bandwidth_bytes" THEN AsI64(WrapU64(bw))
            ELSE AsI64(NetRate(mon, totals, el, k[2]))
    IN IF emit /\ checks /\ bw > U64Max
       THEN [status |-> "panic", metrics |-> NoMetrics, mon |-> mon]
       ELSE [status |-> "ok",
             metrics |-> [k \in keys |-> value(k)],
             mon |-> NetWindowAfter(mon, totals, t)]

\* --------------------------------------------- DiskMonitor I/O (disk_monitor.rs)

\* Device names as procfs reports them, spelled character by character: two
\* whole disks and a partition of the first.
Sda == <<"s", "d", "a">>
Sdb == <<"s", "d", "b">>
Sda1 == <<"s", "d", "a", "1">>
Devices == {Sda, Sdb, Sda1}
Digits == {"0", "1", "2", "3", "4", "5", "6", "7", "8", "9"}

\* 161 with the test dropped: no name is taken for a partition.
IsPartitionNameNever(n) == FALSE

\* 161: curr.name.chars().last().map_or(false, |c| c.is_numeric())
IsPartitionName(n) == Len(n) > 0 /\ n[Len(n)] \in Digits

\* DiskStat counters a device may show: idle, some reads, some writes, and
\* every counter at the top of the u64 range.
StatIdle == [reads |-> 0, writes |-> 0, sectors_read |-> 0, sectors_written |-> 0]
StatRead == [reads |-> I64Max - 1, writes |-> 0, sectors_read |-> 1, sectors_written |-> 0]
StatWrite == [reads |-> 0, writes |-> I64Max - 1, sectors_read |-> 0, sectors_written |-> 1]
StatFull == [reads |-> U64Max, writes |-> U64Max, sectors_read |-> U64Max,
             sectors_written |-> U64Max]
StatsOf(d) ==
    IF d = Sda THEN {StatIdle, StatRead, StatWrite, StatFull} ELSE {StatIdle, StatFull}

\* The device tables procfs::diskstats() may return (name -> DiskStat): the
\* first disk and its partition are always there, the second disk comes and goes.
DiskTables ==
    UNION {{tb \in [present -> {StatIdle, StatRead, StatWrite, StatFull}] :
                \A d \in present : tb[d] \in StatsOf(d)} :
           present \in {Devices, Devices \ {Sdb}}}

\* What procfs::diskstats() returns: Err, or Ok(table).
DiskReadings == {[ok |-> FALSE, stats |-> [d \in {} |-> StatIdle]]}
                    \cup {[ok |-> TRUE, stats |-> tb] : tb \in DiskTables}

DiskFamilies == {"io_read_bytes", "io_write_bytes", "io_read_ops", "io_write_ops"}
DiskRateKeys ==
    {<<"disk", f, "_per_sec">> : f \in DiskFamilies \cup {"io_total_ops"}}

\* DiskMonitor::new 26-44: no previous stats, no previous time.
DiskMonitorNew == [prev_disk_stats |-> None, prev_time |-> None]

\* 159-165: the devices of the current table that are whole disks and are
\* found by name in the previous table.
MatchedDevices(prev, cur) ==
    {d \in DOMAIN cur : ~IsPartitionName(d) /\ d \in DOMAIN prev}

\* 167-170: one device's delta of one counter.
DeviceDelta(prev, cur, d, field) == SaturatingSub(cur[d][field], prev[d][field])

\* 176-179: the sum of a counter's deltas over a set of devices, unwrapped.
RECURSIVE SumDeltas(_, _, _, _)
SumDeltas(prev, cur, ds, field) ==
    IF ds = {} THEN 0
    ELSE LET d == CHOOSE x \in ds : TRUE
         IN DeviceDelta(prev, cur, d, field) + SumDeltas(prev, cur, ds \ {d}, field)

\* 153-181: total_read_bytes, total_write_bytes, total_read_ops and
\* total_write_ops after the loop, before any wrapping.
DiskTotal(prev, cur, f) ==
    LET ds == MatchedDevices(prev, cur)
    IN CASE f = "io_read_bytes"  -> SectorBytes * SumDeltas(prev, cur, ds, "sectors_read")
         [] f = "io_write_bytes" -> SectorBytes * SumDeltas(prev, cur, ds, "sectors_written")
         [] f = "io_read_ops"    -> SumDeltas(prev, cur, ds, "reads")
         [] f = "io_write_ops"   -> SumDeltas(prev, cur, ds, "writes")

\* 184-187: the rate of family f over el ticks (a u64).
DiskRate(prev, cur, el, f) == RatePerSec(WrapU64(DiskTotal(prev, cur, f)), el)

\* 207: read_ops_per_sec + write_ops_per_sec, before any wrapping.
DiskTotalOps(prev, cur, el) ==
    DiskRate(prev, cur, el, "io_read_ops") + DiskRate(prev, cur, el, "io_write_ops")

\* Some `*` or `+` of 173-179 or 207 exceeds u64::MAX.
DiskOverflows(prev, cur, el) ==
    \/ \E f \in DiskFamilies : DiskTotal(prev, cur, f) > U64Max
    \/ DiskTotalOps(prev, cur, el) > U64Max

\* A window update that stores only the devices the window already knew.
DiskWindowAfterKnownDevices(mon, stats, t) ==
    [prev_disk_stats |->
        Some(IF IsSome(mon.prev_disk_stats)
             THEN [d \in DOMAIN stats \cap DOMAIN Unwrap(mon.prev_disk_stats) |-> stats[d]]
             ELSE stats),
     prev_time |-> Some(t)]

\* 211-212 and 219-220: the stats and the time of this call are stored.
DiskWindowAfter(mon, stats, t) == [prev_disk_stats |-> Some(stats), prev_time |-> Some(t)]

\* 148-151: rates are computed iff both previous values are Some and
\* elapsed > 0.0.
DiskEmitsRates(mon, t) ==
    /\ IsSome(mon.prev_disk_stats) /\ IsSome(mon.prev_time)
    /\ Elapsed(Unwrap(mon.prev_time), t) > 0

\* DiskMonitor::get_disk_io_metrics 134-223 at Instant t, with
\* procfs::diskstats() = reading, as get_metrics 124-128 merges it into the
\* snapshot (a None adds nothing). checks = the build has overflow checks.
\* Result: the I/O part of the snapshot and the monitor afterwards. The usage
\* keys of get_metrics 47-122 do not touch the window and are left out here.
DiskGetIoMetrics(mon, reading, t, checks) ==
    LET emit == reading.ok /\ DiskEmitsRates(mon, t)
        prev == Unwrap(mon.prev_disk_stats)
        cur  == reading.stats
        el   == Elapsed(Unwrap(mon.prev_time), t)
        value(k) ==
            IF k[2] = "io_total_ops" THEN AsI64(WrapU64(DiskTotalOps(prev, cur, el)))
            ELSE AsI64(DiskRate(prev, cur, el, k[2]))
    IN IF ~reading.ok
       THEN [status |-> "ok", metrics |-> NoMetrics, mon |-> mon]
       ELSE IF emit /\ checks /\ DiskOverflows(prev, cur, el)
       THEN [status |-> "panic", metrics |-> NoMetrics, mon |-> mon]
       ELSE [status |-> "ok",
             metrics |-> [k \in (IF emit THEN DiskRateKeys ELSE {}) |-> value(k)],
             mon |-> DiskWindowAfter(mon, cur, t)]

\* The <<device, counter>> pairs of devices in both tables whose counter went
\* down from prev to cur.
DiskResets(prev, cur) ==
    {dc \in (DOMAIN cur \cap DOMAIN prev)
               \X {"reads", "writes", "sectors_read", "sectors_written"} :
        cur[dc[1]][dc[2]] < prev[dc[1]][dc[2]]}

\* ------------------------------------------------------------------ f64 values

\* An f64 is modelled by the rational it stands for: <<n, d>> with d > 0, in
\* lowest terms, so that equal values are equal tuples. (The rounding of f64
\* arithmetic is not modelled.)
RECURSIVE Gcd(_, _)
Gcd(a, b) == IF b = 0 THEN a ELSE Gcd(b, a % b)

\* n / d as an f64, for d > 0.
Ratio(n, d) == <<n \div Gcd(n, d), d \div Gcd(n, d)>>

\* `i as f64`
F64(i) == <<i, 1>>

\* p <= q and p < q on f64 values.
Leq(p, q) == p[1] * q[2] <= q[1] * p[2]
Less(p, q) == p[1] * q[2] < q[1] * p[2]

\* The factor of `* 100.0`.
PercentScale == 100

\* memory_monitor.rs 64-68: `if total > 0 { (used as f64 / total as f64) * 100.0 }
\* else { 0.0 }`; the same expression gives the swap percentage (94-98) and the
\* disk percentages (disk_monitor.rs 80-84, 111-115).
UsagePercent(used, total) ==
    IF total > 0 THEN Ratio(PercentScale * used, total) ELSE F64(0)

\* --------------------------------------------- MemoryMonitor (memory_monitor.rs)

\* What sysinfo reports after refresh_memory: total and used physical memory,
\* total and used swap, each a u64 of its own getter.
MemReadings ==
    [total_memory : {0, 10, U64Max}, used_memory : {0, 9, 10, U64Max},
     total_swap : {0, 4}, used_swap : {0, 1}]

\* The keys of the memory snapshot ("memory.total_bytes", ...). The gauges
\* memory.available_bytes, memory.free_bytes and memory.swap_free_bytes, which
\* feed nothing else, are left out.
MemKeys ==
    {<<"memory", "total", "_bytes">>, <<"memory", "used", "_bytes">>,
     <<"memory", "usage", "_percent">>, <<"memory", "swap_total", "_bytes">>,
     <<"memory", "swap_used", "_bytes">>, <<"memory", "swap_usage", "_percent">>,
     <<"memory", "pressure", "_high">>}

\* The threshold of 105.
PressureThreshold == 90

\* 105, 108 with `>=` in place of `>`.
MemoryPressureAtThreshold(usage_percent) ==
    IF Leq(F64(PressureThreshold), usage_percent) THEN 1 ELSE 0

\* 105, 108: `usage_percent > 90.0` as 1 or 0.
MemoryPressure(usage_percent) ==
    IF Less(F64(PressureThreshold), usage_percent) THEN 1 ELSE 0

\* MemoryMonitor::get_metrics 29-113 when sysinfo reports r.
MemoryGetMetrics(r) ==
    LET usage_percent == UsagePercent(r.used_memory, r.total_memory)
        value(k) ==
            CASE k[2] = "total"      -> AsI64(r.total_memory)
              [] k[2] = "used"       -> AsI64(r.used_memory)
              [] k[2] = "usage"      -> usage_percent
              [] k[2] = "swap_total" -> AsI64(r.total_swap)
              [] k[2] = "swap_used"  -> AsI64(r.used_swap)
              [] k[2] = "swap_usage" -> UsagePercent(r.used_swap, r.total_swap)
              [] k[2] = "pressure"   -> MemoryPressure(usage_percent)
    IN [status |-> "ok", metrics |-> [k \in MemKeys |-> value(k)]]

\* ------------------------------------------- DiskMonitor usage (disk_monitor.rs)

\* Mount points, spelled character by character.
Root == <<"/">>
DevShm == <<"/", "d", "e", "v", "/", "s", "h", "m">>
Data == <<"/", "d", "a", "t", "a">>

\* str::starts_with
StartsWith(s, p) == Len(s) >= Len(p) /\ SubSeq(s, 1, Len(p)) = p

\* 92-95: a mount point is counted in the totals unless it starts with /dev,
\* /sys, /proc or /run.
SpecialPrefixes ==
    {<<"/", "d", "e", "v">>, <<"/", "s", "y", "s">>, <<"/", "p", "r", "o", "c">>,
     <<"/", "r", "u", "n">>}
Counted(mount_point) == \A p \in SpecialPrefixes : ~StartsWith(mount_point, p)

\* One entry of disks.list().
Fs(mp, total, available) ==
    [mount_point |-> mp, total_space |-> total, available_space |-> available]

\* The lists disks.list() may give: none, a root filesystem (part used, of size
\* 0, with more available than its size), a huge root next to a data
\* filesystem, and a root next to a tmpfs under /dev.
MountReadings ==
    {<< >>, <<Fs(Root, 4, 1)>>, <<Fs(Root, 0, 0)>>, <<Fs(Root, 4, 5)>>,
     <<Fs(Root, U64Max, 0), Fs(Data, 2, 2)>>, <<Fs(DevShm, 10, 0), Fs(Root, 4, 1)>>}

\* 62: used = total.saturating_sub(available)
FsUsed(d) == SaturatingSub(d.total_space, d.available_space)

\* 54, 96: total_space after the loop, before any wrapping.
RECURSIVE TotalSpace(_)
TotalSpace(disks) ==
    IF disks = << >> THEN 0
    ELSE (IF Counted(Head(disks).mount_point) THEN Head(disks).total_space ELSE 0)
            + TotalSpace(Tail(disks))

\* 55, 97: total_used after the loop, before any wrapping.
RECURSIVE TotalUsed(_)
TotalUsed(disks) ==
    IF disks = << >> THEN 0
    ELSE (IF Counted(Head(disks).mount_point) THEN FsUsed(Head(disks)) ELSE 0)
            + TotalUsed(Tail(disks))

\* A `+=` of 96-97 exceeds u64::MAX.
UsageOverflows(disks) == TotalSpace(disks) > U64Max \/ TotalUsed(disks) > U64Max

\* 65-89: the entries mounted at "/"; the inserts of a later one overwrite
\* those of an earlier one.
RootEntries(disks) == {i \in 1..Len(disks) : disks[i].mount_point = Root}
RootFs(disks) ==
    disks[CHOOSE i \in RootEntries(disks) : \A j \in RootEntries(disks) : j <= i]

DiskRootKeys ==
    {<<"disk", "root.total", "_bytes">>, <<"disk", "root.used", "_bytes">>,
     <<"disk", "root.available", "_bytes">>, <<"disk", "root.usage", "_percent">>}
DiskTotalKeys ==
    {<<"disk", "total", "_bytes">>, <<"disk", "used", "_bytes">>,
     <<"disk", "usage", "_percent">>}

\* get_metrics 47-119 in a build without overflow checks: the usage part of
\* the snapshot for the list disks.
DiskUsageMetrics(disks) ==
    LET total_space == WrapU64(TotalSpace(disks))
        total_used  == WrapU64(TotalUsed(disks))
        value(k) ==
            CASE k[2] = "total" -> AsI64(total_space)
              [] k[2] = "used"  -> AsI64(total_used)
              [] k[2] = "usage" -> UsagePercent(total_used, total_space)
              [] k[2] = "root.total"     -> AsI64(RootFs(disks).total_space)
              [] k[2] = "root.used"      -> AsI64(FsUsed(RootFs(disks)))
              [] k[2] = "root.available" -> AsI64(RootFs(disks).available_space)
              [] k[2] = "root.usage"     ->
                    UsagePercent(FsUsed(RootFs(disks)), RootFs(disks).total_space)
    IN [k \in DiskTotalKeys \cup (IF RootEntries(disks) # {} THEN DiskRootKeys ELSE {})
          |-> value(k)]

\* HashMap::extend taken as a replacement of the map.
ExtendReplace(a, b) == b

\* HashMap::extend: the entries of b are put into a.
Extend(a, b) == [k \in DOMAIN a \cup DOMAIN b |-> IF k \in DOMAIN b THEN b[k] ELSE a[k]]

\* DiskMonitor::get_metrics 47-131 at Instant t, with disks.list() = disks and
\* procfs::diskstats() = reading: the usage keys, then the I/O keys merged in
\* (124-126). A panic unwinds the call and leaves the monitor as it was.
DiskGetMetrics(mon, disks, reading, t, checks) ==
    IF checks /\ UsageOverflows(disks)
    THEN [status |-> "panic", metrics |-> NoMetrics, mon |-> mon]
    ELSE CHOOSE r \in {IF io.status = "panic" THEN io
                       ELSE [status |-> "ok",
                             metrics |-> Extend(DiskUsageMetrics(disks), io.metrics),
                             mon |-> io.mon] :
                       io \in {DiskGetIoMetrics(mon, reading, t, checks)}} : TRUE

\* ------------------------------------- convert_to_response (rest_api.rs 323-450)

\* MetricValue: Int(i64), Float(f64), String. The payload v of an Int is kept
\* as the integer over 1, the form `as f64` gives it.
IntV(i) == [tag |-> "Int", v |-> F64(i)]
FloatV(q) == [tag |-> "Float", v |-> q]
StringV(s) == [tag |-> "String", s |-> s]

\* The snapshot a monitor hands over, as MetricValues: the percentages are
\* inserted as Float, everything else as Int.
Tagged(metrics) ==
    [k \in DOMAIN metrics |->
        IF k[3] = "_percent" THEN FloatV(metrics[k]) ELSE IntV(metrics[k])]

\* `q as i64` on an f64: truncated toward zero, saturating at the ends of i64.
F64AsI64(q) ==
    LET t == IF q[1] >= 0 THEN q[1] \div q[2] ELSE -((-q[1]) \div q[2])
    IN IF t > I64Max THEN I64Max ELSE IF t < -(I64Max + 1) THEN -(I64Max + 1) ELSE t

\* `i as u64` / `i as usize` on an i64 reinterprets the bits.
AsU64(i) == IF i < 0 THEN i + Modulus ELSE i

\* Option::unwrap_or
UnwrapOr(o, d) == IF IsSome(o) THEN Unwrap(o) ELSE d

\* get_float reading a value of 1.0 where the map has no entry.
get_float_absent_as_one(metrics, key) ==
    IF key \notin DOMAIN metrics THEN Some(F64(1))
    ELSE IF metrics[key].tag \in {"Float", "Int"} THEN Some(metrics[key].v) ELSE None

\* get_float 435-441
get_float(metrics, key) ==
    IF key \notin DOMAIN metrics THEN None
    ELSE CASE metrics[key].tag = "Float" -> Some(metrics[key].v)
           [] metrics[key].tag = "Int"   -> Some(metrics[key].v)
           [] OTHER -> None

\* get_int 444-450
get_int(metrics, key) ==
    IF key \notin DOMAIN metrics THEN None
    ELSE CASE metrics[key].tag = "Int"   -> Some(metrics[key].v[1])
           [] metrics[key].tag = "Float" -> Some(F64AsI64(metrics[key].v))
           [] OTHER -> None

\* get_string 453-458
get_string(metrics, key) ==
    IF key \in DOMAIN metrics /\ metrics[key].tag = "String"
    THEN Some(metrics[key].s) ELSE None

\* format!("cpu.core{}...", i) for the cores the model has.
CoreNames == <<"core0", "core1", "core2">>
CoreKey(i, field) == <<"cpu", CoreNames[i + 1], field>>

\* The decimal digits of a key segment and their values.
DigitVal == [c \in Digits |->
                CASE c = "0" -> 0 [] c = "1" -> 1 [] c = "2" -> 2 [] c = "3" -> 3
                  [] c = "4" -> 4 [] c = "5" -> 5 [] c = "6" -> 6 [] c = "7" -> 7
                  [] c = "8" -> 8 [] c = "9" -> 9]

\* str::parse::<usize> on a segment spelled character by character: Some(n)
\* for a non-empty run of digits, after one optional "+", that fits in a usize.
RECURSIVE DigitsValue(_, _)
DigitsValue(seg, acc) ==
    IF seg = << >> THEN acc ELSE DigitsValue(Tail(seg), 10 * acc + DigitVal[Head(seg)])
ParseUsize(seg) ==
    LET body == IF seg # << >> /\ Head(seg) = "+" THEN Tail(seg) ELSE seg
    IN IF body # << >> /\ (\A i \in 1..Len(body) : body[i] \in Digits)
                       /\ DigitsValue(body, 0) <= U64Max
       THEN Some(DigitsValue(body, 0)) ELSE None

\* format!("{}", id) for an id below 10.
IdSegment(id) == <<CHOOSE c \in Digits : DigitVal[c] = id>>
GpuKey(id, field) == <<"gpu", IdSegment(id), field>>

\* 388 with the test dropped: every key is scanned for an index.
KeyIsScannedAlways(key) == TRUE

\* 388: key.starts_with("gpu.")
KeyIsScanned(key) == key[1] = "gpu"

\* 386-395: the ids found in the keys of gpu_metrics (second segment of a key
\* that starts with "gpu.", parsed as usize).
GpuIds(gpu_metrics) ==
    {Unwrap(ParseUsize(k[2])) :
        k \in {x \in DOMAIN gpu_metrics : KeyIsScanned(x) /\ IsSome(ParseUsize(x[2]))}}

\* 397-415: one AcceleratorMetrics for id.
Accelerator(gpu_metrics, id) ==
    [id |-> id,
     device_type |-> "gpu",
     name |-> UnwrapOr(get_string(gpu_metrics, GpuKey(id, "name")), <<"GPU", id>>),
     utilization |-> UnwrapOr(get_float(gpu_metrics, GpuKey(id, "gpu_utilization")), F64(0)),
     memory |->
        [used |-> AsU64(UnwrapOr(get_int(gpu_metrics, GpuKey(id, "memory_used")), 0)),
         total |-> AsU64(UnwrapOr(get_int(gpu_metrics, GpuKey(id, "memory_total")), 0)),
         percentage |->
            UnwrapOr(get_float(gpu_metrics, GpuKey(id, "memory_utilization")), F64(0))],
     temperature |-> UnwrapOr(get_float(gpu_metrics, GpuKey(id, "temperature")), F64(0)),
     power |-> get_float(gpu_metrics, GpuKey(id, "power_usage")),
     fan_speed |-> get_float(gpu_metrics, GpuKey(id, "fan_speed"))]

\* The orders in which a HashSet of ids may be iterated (397).
IdOrders(ids) ==
    {o \in [1..Cardinality(ids) -> ids] : \A i, j \in DOMAIN o : o[i] = o[j] => i = j}

\* convert_to_response 323-432 for the five snapshots in s, the gpu ids being
\* iterated in the given order. (timestamp, the wall clock, is left out.)
convert_to_response(node_id, s, order) ==
    LET cpu_count == AsU64(UnwrapOr(get_int(s.cpu, <<"cpu", "count", "">>), 1))
    IN [node_id |-> node_id,
        cpu |->
          [overall |-> UnwrapOr(get_float(s.cpu, <<"cpu", "usage", "_percent">>), F64(0)),
           cores |->
              [n \in 1..cpu_count |->
                  [id |-> n - 1,
                   usage |->
                      UnwrapOr(get_float(s.cpu, CoreKey(n - 1, "usage_percent")), F64(0)),
                   frequency |->
                      UnwrapOr(get_float(s.cpu, CoreKey(n - 1, "frequency_mhz")), F64(0)),
                   temperature |-> get_float(s.cpu, <<"cpu", "temperature", "_celsius">>)]],
           load_average |->
              <<UnwrapOr(get_float(s.cpu, <<"cpu", "load_avg", "_1min">>), F64(0)),
                UnwrapOr(get_float(s.cpu, <<"cpu", "load_avg", "_5min">>), F64(0)),
                UnwrapOr(get_float(s.cpu, <<"cpu", "load_avg", "_15min">>), F64(0))>>,
           processes |-> UnwrapOr(get_int(s.cpu, <<"cpu", "process", "_count">>), 0),
           threads |-> UnwrapOr(get_int(s.cpu, <<"cpu", "thread", "_count">>), 0)],
        memory |->
          [usage |-> UnwrapOr(get_float(s.memory, <<"memory", "usage", "_percent">>), F64(0)),
           used |-> AsU64(UnwrapOr(get_int(s.memory, <<"memory", "used", "_bytes">>), 0)),
           total |-> AsU64(UnwrapOr(get_int(s.memory, <<"memory", "total", "_bytes">>), 0)),
           swap |->
             [used |->
                AsU64(UnwrapOr(get_int(s.memory, <<"memory", "swap_used", "_bytes">>), 0)),
              total |->
                AsU64(UnwrapOr(get_int(s.memory, <<"memory", "swap_total", "_bytes">>), 0)),
              percentage |->
                UnwrapOr(get_float(s.memory, <<"memory", "swap_usage", "_percent">>),
                         F64(0))]],
        disk |->
          [usage |-> UnwrapOr(get_float(s.disk, <<"disk", "usage", "_percent">>), F64(0)),
           used |-> AsU64(UnwrapOr(get_int(s.disk, <<"disk", "used", "_bytes">>), 0)),
           total |-> AsU64(UnwrapOr(get_int(s.disk, <<"disk", "total", "_bytes">>), 0)),
           io_read |->
              AsU64(UnwrapOr(get_int(s.disk, <<"disk", "io_read_bytes", "_per_sec">>), 0)),
           io_write |->
              AsU64(UnwrapOr(get_int(s.disk, <<"disk", "io_write_bytes", "_per_sec">>), 0)),
           iops |-> UnwrapOr(get_int(s.disk, <<"disk", "io_total_ops", "_per_sec">>), 0)],
        network |->
          [bytes_in |->
              AsU64(UnwrapOr(get_int(s.network, <<"network", "rx_bytes", "_per_sec">>), 0)),
           bytes_out |->
              AsU64(UnwrapOr(get_int(s.network, <<"network", "tx_bytes", "_per_sec">>), 0)),
           packets_in |->
              AsU64(UnwrapOr(get_int(s.network, <<"network", "rx_packets", "_per_sec">>), 0)),
           packets_out |->
              AsU64(UnwrapOr(get_int(s.network, <<"network", "tx_packets", "_per_sec">>), 0)),
           connections |->
              UnwrapOr(get_int(s.network, <<"network", "connections", "_active">>), 0)],
        accelerators |-> [i \in DOMAIN order |-> Accelerator(s.gpu, order[i])]]

\* Snapshots handed to convert_to_response. CPU: two cores with every key, the
\* same without the sensor and load-average keys, nothing.
CpuFull ==
    (<<"cpu", "usage", "_percent">> :> FloatV(<<85, 2>>))
    @@ (<<"cpu", "count", "">> :> IntV(2))
    @@ (CoreKey(0, "usage_percent") :> FloatV(F64(40)))
    @@ (CoreKey(0, "frequency_mhz") :> FloatV(F64(2400)))
    @@ (CoreKey(1, "usage_percent") :> FloatV(F64(45)))
    @@ (CoreKey(1, "frequency_mhz") :> FloatV(F64(1800)))
    @@ (<<"cpu", "temperature", "_celsius">> :> FloatV(<<123, 2>>))
    @@ (<<"cpu", "load_avg", "_1min">> :> FloatV(<<1, 2>>))
    @@ (<<"cpu", "load_avg", "_5min">> :> FloatV(<<1, 4>>))
    @@ (<<"cpu", "load_avg", "_15min">> :> FloatV(<<1, 8>>))
    @@ (<<"cpu", "process", "_count">> :> IntV(3))
    @@ (<<"cpu", "thread", "_count">> :> IntV(7))
Only(m, keys) == [k \in DOMAIN m \cap keys |-> m[k]]
CpuSnaps ==
    {CpuFull, NoMetrics,
     Only(CpuFull, {k \in DOMAIN CpuFull : k[2] \notin {"temperature", "load_avg", "count"}})}

\* Memory: what the monitor gives for three readings, and nothing.
MemSnaps ==
    {NoMetrics}
      \cup {Tagged(MemoryGetMetrics(r).metrics) :
              r \in {[total_memory |-> 10, used_memory |-> 9, total_swap |-> 4,
                      used_swap |-> 1],
                     [total_memory |-> U64Max, used_memory |-> U64Max, total_swap |-> 0,
                      used_swap |-> 0]}}

\* Disk: nothing, the usage keys alone, the usage keys with rates.
DiskSnaps ==
    {NoMetrics, Tagged(DiskUsageMetrics(<<Fs(Root, 4, 1)>>)),
     Tagged(Extend(DiskUsageMetrics(<<Fs(Root, 4, 1)>>), [k \in DiskRateKeys |-> 5])),
     Tagged([k \in DiskRateKeys |-> AsI64(U64Max)])}

\* Network: nothing, rates with a connection count, top-of-range rates
\* without one.
NetSnaps ==
    {NoMetrics,
     Tagged([k \in NetRateKeys |-> 6] @@ (<<"network", "connections", "_active">> :> 2)),
     Tagged([k \in NetRateKeys |-> AsI64(U64Max)])}

\* Accelerators: nothing; every field of device 0; devices 0 and 2 with some
\* fields; keys under another prefix; a fractional Float where an integer is
\* read; a key whose second segment is no index; a key without a field; one
\* device's index written in two ways.
GpuAll ==
    (GpuKey(0, "name") :> StringV(<<"A100">>))
    @@ (GpuKey(0, "gpu_utilization") :> FloatV(<<101, 2>>))
    @@ (GpuKey(0, "memory_used") :> IntV(3))
    @@ (GpuKey(0, "memory_total") :> IntV(8))
    @@ (GpuKey(0, "memory_utilization") :> FloatV(<<75, 2>>))
    @@ (GpuKey(0, "temperature") :> IntV(60))
    @@ (GpuKey(0, "power_usage") :> FloatV(<<501, 2>>))
    @@ (GpuKey(0, "fan_speed") :> FloatV(F64(30)))
GpuSnaps ==
    {NoMetrics, GpuAll,
     (GpuKey(0, "temperature") :> FloatV(F64(60)))
        @@ (GpuKey(2, "temperature") :> FloatV(F64(70)))
        @@ (GpuKey(2, "memory_used") :> IntV(5)),
     (<<"accelerator", IdSegment(0), "temperature">> :> FloatV(F64(60)))
        @@ (<<"accelerator", IdSegment(0), "memory_used">> :> IntV(5)),
     (GpuKey(0, "memory_used") :> FloatV(<<5, 2>>))
        @@ (GpuKey(0, "memory_total") :> FloatV(F64(8))),
     (<<"gpu", <<"c", "o", "u", "n", "t">>, "">> :> IntV(1))
        @@ (GpuKey(1, "temperature") :> FloatV(F64(60))),
     (<<"gpu", IdSegment(3), "">> :> IntV(1)),
     (<<"gpu", <<"0", "1">>, "temperature">> :> FloatV(F64(60)))
        @@ (GpuKey(1, "memory_used") :> IntV(5))}

ConvertInputs ==
    [cpu : CpuSnaps, memory : MemSnaps, disk : DiskSnaps, network : NetSnaps,
     gpu : GpuSnaps]

\* ApiState.node_id, the --node-id argument (main.rs 129-130).
StateNodeId == "localhost"

\* ------------------------------------------ the RPC surface (main.rs 180-300)

\* Metric keys of the RPC sample, the first segment spelled character by
\* character: "_timestamp", "gpu.<id>.<field>", "_gpu.count".
TimestampKey == <<<<"_", "t", "i", "m", "e", "s", "t", "a", "m", "p">>, << >>, "">>
GpuStatKey(id, field) == <<<<"g", "p", "u">>, IdSegment(id), field>>
GpuCountKey == <<<<"_", "g", "p", "u">>, << >>, "count">>

\* The accelerators of the machine, by device index.
GpuDevices == {0, 2}

\* get_stats 266-270: an empty device-id list means no filter.
DeviceFilter(gpu_device_ids) ==
    IF gpu_device_ids = {} THEN None ELSE Some(gpu_device_ids)

\* GpuMonitors::collect_metrics(pid, gpu_device_ids): the internal device count
\* and, for every device the filter lets through, its metrics under
\* gpu.<id>.<field>. (Per-process metrics are left out.)
RECURSIVE DeviceMetrics(_)
DeviceMetrics(ids) ==
    IF ids = {} THEN << >>
    ELSE LET id == CHOOSE x \in ids : \A y \in ids : x <= y
         IN <<[key |-> GpuStatKey(id, "temperature"), value |-> FloatV(F64(60 + id))],
              [key |-> GpuStatKey(id, "memory_used"), value |-> IntV(3)]>>
              \o DeviceMetrics(ids \ {id})
CollectMetrics(pid, filter) ==
    <<[key |-> GpuCountKey, value |-> IntV(Cardinality(GpuDevices))]>>
      \o DeviceMetrics(IF IsSome(filter) THEN GpuDevices \cap Unwrap(filter) ELSE GpuDevices)

\* sample 180-205 with the four domain monitors read as well.
RpcSampledMonitorsAll == Monitors

\* sample 180-205: the monitors the RPC sample reads (197-202: the GPU
\* monitors, and no CPU, memory, disk or network monitor).
RpcSampledMonitors == {"gpu"}

\* sample 180-205 at wall-clock time t: "_timestamp" first, then what the GPU
\* monitors collected.
RpcSample(pid, filter, t) ==
    <<[key |-> TimestampKey, value |-> FloatV(Ratio(t, TicksPerSec))]>>
      \o CollectMetrics(pid, filter)

\* 276 with the test dropped: no key is taken for internal.
IsInternalNever(key) == FALSE

\* 276: name.starts_with('_')
IsInternal(key) == key[1] # << >> /\ key[1][1] = "_"

\* serde_json::to_string of a MetricValue.
ToJson(value) == <<"json", value>>

\* get_stats 274-283: the items of the StatsRecord.
RECURSIVE StatsItems(_)
StatsItems(all_metrics) ==
    IF all_metrics = << >> THEN << >>
    ELSE (IF IsInternal(Head(all_metrics).key) THEN << >>
          ELSE <<[key |-> Head(all_metrics).key,
                  value_json |-> ToJson(Head(all_metrics).value)]>>)
            \o StatsItems(Tail(all_metrics))

\* GpuMonitors::collect_metadata(&samples): the environment record built from
\* the sample (the device count it reports).
CollectMetadata(samples) ==
    [gpu_count |-> IF GpuCountKey \in DOMAIN samples THEN samples[GpuCountKey].v[1] ELSE 0]

\* get_metadata 238-241: the sample as a map from name to value.
SamplesMap(all_metrics) ==
    [k \in {all_metrics[i].key : i \in DOMAIN all_metrics} |->
        all_metrics[CHOOSE i \in DOMAIN all_metrics :
                       /\ all_metrics[i].key = k
                       /\ \A j \in DOMAIN all_metrics : all_metrics[j].key = k => j <= i].value]

\* The process ids and device-id lists a GetStats request may carry.
RequestPids == {0, OsPids.launcher}
RequestDeviceIds == {{}, {0}, {0, 5}}

\* ------------------------------------------------- monitor state before use
NoSnapshot == [status |-> "none", metrics |-> NoMetrics]
ZeroTotals == [f \in NetFamilies |-> 0]

\* One root filesystem is mounted and the memory monitor has not been asked.
GaugeIdle ==
    /\ mounts = <<Fs(Root, 4, 1)>>
    /\ memRead = None
    /\ memOut = NoSnapshot

\* No metrics request has collected or converted anything.
NoSnapshots ==
    [cpu |-> NoMetrics, memory |-> NoMetrics, disk |-> NoMetrics, network |-> NoMetrics,
     gpu |-> NoMetrics]
ApiIdle ==
    /\ snap = NoSnapshots
    /\ dto = None

\* No GetStats or GetMetadata call has been made.
RpcIdle ==
    /\ sampled = << >>
    /\ rpcReply = [op |-> "none"]

\* The monitors as constructed, before any sample call.
MonIdle ==
    /\ subject = "network"
    /\ overflow_checks = FALSE
    /\ now = 0
    /\ calls = 0
    /\ net = NetworkMonitorNew(ZeroTotals)
    /\ netRead = ZeroTotals
    /\ netOut = NoSnapshot
    /\ disk = DiskMonitorNew
    /\ diskRead = None
    /\ diskOut = NoSnapshot
    /\ resets = {}
    /\ GaugeIdle

\* --------------------------------------------------------------------- Init
Init ==
    /\ platform \in Platforms
    /\ args \in [parent_pid : ParentPidArgs,
                 listen_on_localhost : BOOLEAN,
                 enable_rest_api : BOOLEAN]
    /\ ppid = OsPids.launcher
    /\ mainPc = "new_service"
    /\ mainResult = "running"
    /\ shutdown_sender = "Some"
    /\ senderLock = <<"free">>
    /\ chan = "armed"
    /\ sendCount = 0
    /\ wd = "none"
    /\ wdSawGone = FALSE
    /\ wdPollAfterGone = FALSE
    /\ wdSends = 0
    /\ gpuState = "active"
    /\ tdPc = [c \in Clients |-> "idle"]
    /\ tdAfter = [c \in Clients |-> FALSE]
    /\ tdResult = [c \in Clients |-> "none"]
    /\ tdReturned = FALSE
    /\ rpc = "not_started"
    /\ http = "off"
    /\ listener = "none"
    /\ port = 0
    /\ handshake = NoToken
    /\ handshakeWrites = 0
    /\ bindAttempts = 0
    /\ bindFailed = FALSE
    /\ sockFile \in (IF UseTcp(platform, args.listen_on_localhost)
                     THEN {FALSE} ELSE BOOLEAN)
    /\ cleanup = "none"
    /\ healthSeen = {}
    /\ constructed = [m \in Monitors |-> 0]
    /\ surfaceGpu = [rpc |-> 0, http |-> 0]
    /\ hPc = [h \in Handlers |-> [kind |-> "idle", at |-> 0, sampling |-> FALSE]]
    /\ hHeld = [h \in Handlers |-> {}]
    /\ lockQueue = [m \in Monitors |-> << >>]
    /\ MonIdle
    /\ ApiIdle
    /\ RpcIdle

\* ------------------------------------------------------------- main (main.rs)

\* A constructor call adds one instance of each kind in ks.
Construct(n, ks) == [m \in DOMAIN n |-> IF m \in ks THEN n[m] + 1 ELSE n[m]]

\* main 412-420 and SystemMonitorServiceImpl::new 144-155: the channel and the
\* service are created, the service with its own GpuMonitors::new (149); the
\* watchdog task is spawned iff parent_pid > 0.
NewService ==
    /\ mainPc = "new_service"
    /\ wd' = IF args.parent_pid > 0 THEN "sleeping" ELSE "none"
    /\ mainPc' = MainAfter("new_service")
    /\ constructed' = Construct(constructed, {"gpu"})
    /\ surfaceGpu' = [surfaceGpu EXCEPT !.rpc = constructed'["gpu"]]
    /\ UNCHANGED <<monVars, cfgVars, ppid, mainResult, sigVars, wdSawGone, wdPollAfterGone,
                   wdSends, tdVars, rpc, http, lstVars, healthSeen, httpVars>>

\* main 422-449: with --enable-rest-api a GpuMonitors::new for the REST surface
\* (424) and ApiState::new (431, rest_api.rs 149-180: one CpuMonitor,
\* MemoryMonitor, DiskMonitor and NetworkMonitor) are constructed, the HTTP
\* port is bound (`?` on failure) and the axum server is spawned; otherwise
\* there is no REST task.
StartRest ==
    /\ mainPc = "start_rest"
    /\ \/ /\ ~args.enable_rest_api
          /\ mainPc' = MainAfter("start_rest")
          /\ UNCHANGED <<http, mainResult, instVars>>
       \/ /\ args.enable_rest_api
          /\ constructed' = Construct(constructed, RestMonitors)
          /\ surfaceGpu' = [surfaceGpu EXCEPT !.http = constructed'["gpu"]]
          /\ \E ok \in BOOLEAN :
                /\ http' = (IF ok THEN "serving" ELSE http)
                /\ mainPc' = AfterRestBind(ok)
                /\ mainResult' = (IF mainPc' = "exited" THEN "Err" ELSE mainResult)
    /\ UNCHANGED <<monVars, cfgVars, ppid, sigVars, wdVars, tdVars, rpc, lstVars,
                   healthSeen, httpVars>>

\* create_listener 324-366: the transport is chosen and bound. A stale socket
\* file is removed first (the removal may fail); any bind error is returned.
BindListener ==
    /\ mainPc = "bind"
    /\ bindAttempts' = bindAttempts + 1
    /\ \E ok \in BOOLEAN, p \in Ports, removed \in BOOLEAN :
         LET use_tcp == UseTcp(platform, args.listen_on_localhost)
             stale   == sockFile /\ ~removed
             bound   == IF use_tcp THEN ok ELSE ok /\ ~stale
         IN /\ mainPc' = AfterBind(bound)
            /\ mainResult' = IF mainPc' = "exited" THEN "Err" ELSE mainResult
            /\ bindFailed' = ~bound
            /\ listener' = IF ~bound THEN "none" ELSE IF use_tcp THEN "tcp" ELSE "unix"
            /\ port' = IF bound /\ use_tcp THEN p ELSE 0
            /\ sockFile' = IF use_tcp THEN sockFile ELSE (bound \/ stale)
    /\ UNCHANGED <<monVars, cfgVars, instVars, ppid, sigVars, wdVars, tdVars, rpc, http, handshake,
                   handshakeWrites, cleanup, healthSeen, httpVars>>

\* create_listener 337-342 and 368-384: the token is written to the portfile
\* (`?` on a write error); on the unix path a non-UTF-8 socket path is an error
\* and a successful write is followed by the spawn of the ctrl_c cleanup task.
WriteToken ==
    /\ mainPc = "write_token"
    /\ \E wrote \in BOOLEAN, utf8 \in BOOLEAN :
         LET use_tcp == UseTcp(platform, args.listen_on_localhost)
             ok      == wrote /\ (use_tcp \/ utf8)
         IN IF ok
            THEN /\ handshake' = HandshakeToken(use_tcp, port, SocketPath(args.parent_pid))
                 /\ handshakeWrites' = handshakeWrites + 1
                 /\ cleanup' = IF use_tcp THEN cleanup ELSE "waiting"
                 /\ mainPc' = MainAfter("write_token")
                 /\ UNCHANGED mainResult
            ELSE /\ mainPc' = "exited"
                 /\ mainResult' = "Err"
                 /\ UNCHANGED <<handshake, handshakeWrites, cleanup>>
    /\ UNCHANGED <<monVars, cfgVars, instVars, ppid, sigVars, wdVars, tdVars, rpc, http, listener,
                   port, bindAttempts, bindFailed, sockFile, healthSeen, httpVars>>

\* main 461-473: serve_with_incoming_shutdown is called; the server accepts.
Serve ==
    /\ mainPc = "serve"
    /\ rpc' = "serving"
    /\ mainPc' = "serving"
    /\ UNCHANGED <<monVars, cfgVars, instVars, ppid, mainResult, sigVars, wdVars, tdVars, http,
                   lstVars, healthSeen, httpVars>>

\* main 454-457: the shutdown_signal future receives the value; the receiver is
\* consumed and the server stops accepting and drains.
RpcObserveShutdown ==
    /\ mainPc = "serving"
    /\ rpc = "serving"
    /\ chan = "fired"
    /\ rpc' = "draining"
    /\ chan' = "consumed"
    /\ UNCHANGED <<monVars, cfgVars, instVars, ppid, mainPc, mainResult, shutdown_sender, senderLock,
                   sendCount, wdVars, tdVars, http, lstVars, healthSeen, httpVars>>

\* The serve call returns once no request is in flight.
RpcDrained ==
    /\ mainPc = "serving"
    /\ rpc = "draining"
    /\ \A c \in Clients : tdPc[c] = "idle"
    /\ rpc' = "stopped"
    /\ mainPc' = MainAfter("serving")
    /\ mainResult' = IF mainPc' = "exited" THEN "Ok" ELSE mainResult
    /\ UNCHANGED <<monVars, cfgVars, instVars, ppid, sigVars, wdVars, tdVars, http, lstVars,
                   healthSeen, httpVars>>

\* main 475-480: the REST task, if any, is awaited; axum::serve does not return
\* on its own, so with a REST task main stays here.
JoinRest ==
    /\ mainPc = "join_rest"
    /\ http = "off"
    /\ mainPc' = MainAfter("join_rest")
    /\ mainResult' = IF mainPc' = "exited" THEN "Ok" ELSE mainResult
    /\ UNCHANGED <<monVars, cfgVars, instVars, ppid, sigVars, wdVars, tdVars, rpc, http, lstVars,
                   healthSeen, httpVars>>

\* ------------------------------------------------ parent watchdog (main.rs 157-174)

\* One loop iteration: the 5 s sleep has elapsed and is_parent_alive is asked.
WdPoll ==
    /\ Alive
    /\ wd = "sleeping"
    /\ LET alive == IsParentAlive(platform, ppid, args.parent_pid)
       IN /\ wd' = WatchdogAfterPoll(alive)
          /\ wdPollAfterGone' = (wdPollAfterGone \/ wdSawGone)
          /\ wdSawGone' = (wdSawGone \/ ~alive)
    /\ UNCHANGED <<monVars, cfgVars, instVars, ppid, mainPc, mainResult, sigVars, wdSends, tdVars, rpc,
                   http, lstVars, healthSeen, httpVars>>

\* shutdown_sender_clone.lock().await
WdLock ==
    /\ Alive
    /\ wd = "locking"
    /\ senderLock = <<"free">>
    /\ senderLock' = <<"watchdog">>
    /\ wd' = "firing"
    /\ UNCHANGED <<monVars, cfgVars, instVars, ppid, mainPc, mainResult, shutdown_sender, chan, sendCount,
                   wdSawGone, wdPollAfterGone, wdSends, tdVars, rpc, http, lstVars,
                   healthSeen, httpVars>>

\* if let Some(sender) = sender.take() { sender.send(()).ok(); } break;
WdFire ==
    /\ Alive
    /\ wd = "firing"
    /\ LET t == TakeSender(shutdown_sender)
       IN /\ shutdown_sender' = t.slot
          /\ chan' = IF t.taken THEN ChanAfterSend(chan) ELSE chan
          /\ sendCount' = IF t.taken THEN Bump(sendCount) ELSE sendCount
          /\ wdSends' = IF t.taken THEN Bump(wdSends) ELSE wdSends
    /\ senderLock' = <<"free">>
    /\ wd' = WatchdogAfterFire
    /\ UNCHANGED <<monVars, cfgVars, instVars, ppid, mainPc, mainResult, wdSawGone, wdPollAfterGone,
                   tdVars, rpc, http, lstVars, healthSeen, httpVars>>

\* ------------------------------------------------------ tear_down (main.rs 212-228)

\* A TearDown request is accepted by the serving RPC server.
TdStart(c) ==
    /\ Alive
    /\ rpc = "serving"
    /\ tdPc[c] = "idle"
    /\ tdPc' = [tdPc EXCEPT ![c] = "shutdown_gpu"]
    /\ tdAfter' = [tdAfter EXCEPT ![c] = tdReturned]
    /\ tdResult' = [tdResult EXCEPT ![c] = "none"]
    /\ UNCHANGED <<monVars, cfgVars, instVars, ppid, mainPc, mainResult, sigVars, wdVars, gpuState,
                   tdReturned, rpc, http, lstVars, healthSeen, httpVars>>

\* self.gpu_monitors.shutdown(), called on every request.
TdShutdownGpu(c) ==
    /\ Alive
    /\ tdPc[c] = "shutdown_gpu"
    /\ gpuState' = GpuShutdown(gpuState)
    /\ tdPc' = [tdPc EXCEPT ![c] = "lock"]
    /\ UNCHANGED <<monVars, cfgVars, instVars, ppid, mainPc, mainResult, sigVars, wdVars, tdAfter,
                   tdResult, tdReturned, rpc, http, lstVars, healthSeen, httpVars>>

\* self.shutdown_sender.lock().await
TdLock(c) ==
    /\ Alive
    /\ tdPc[c] = "lock"
    /\ senderLock = <<"free">>
    /\ senderLock' = <<"client", c>>
    /\ tdPc' = [tdPc EXCEPT ![c] = "take"]
    /\ UNCHANGED <<monVars, cfgVars, instVars, ppid, mainPc, mainResult, shutdown_sender, chan, sendCount,
                   wdVars, gpuState, tdAfter, tdResult, tdReturned, rpc, http,
                   lstVars, healthSeen, httpVars>>

\* if let Some(sender) = sender.take() { sender.send(()).unwrap(); }
\* An Err from send panics the handler; unwinding drops the guard.
TdTakeSend(c) ==
    /\ Alive
    /\ tdPc[c] = "take"
    /\ LET t == TakeSender(shutdown_sender)
           panics == t.taken /\ SendResult(chan) = "Err"
       IN /\ shutdown_sender' = t.slot
          /\ chan' = IF t.taken THEN ChanAfterSend(chan) ELSE chan
          /\ sendCount' = IF t.taken THEN Bump(sendCount) ELSE sendCount
          /\ tdPc' = [tdPc EXCEPT ![c] = IF panics THEN "idle" ELSE "return"]
          /\ tdResult' = [tdResult EXCEPT ![c] = IF panics THEN "Panic" ELSE @]
          /\ senderLock' = IF panics THEN <<"free">> ELSE senderLock
    /\ UNCHANGED <<monVars, cfgVars, instVars, ppid, mainPc, mainResult, wdVars, gpuState, tdAfter,
                   tdReturned, rpc, http, lstVars, healthSeen, httpVars>>

\* Ok(Response::new(TearDownResponse {})); the guard is dropped on return.
TdReturn(c) ==
    /\ Alive
    /\ tdPc[c] = "return"
    /\ senderLock' = <<"free">>
    /\ tdResult' = [tdResult EXCEPT ![c] = "Ok"]
    /\ tdReturned' = TRUE
    /\ tdPc' = [tdPc EXCEPT ![c] = "idle"]
    /\ UNCHANGED <<monVars, cfgVars, instVars, ppid, mainPc, mainResult, shutdown_sender, chan, sendCount,
                   wdVars, gpuState, tdAfter, rpc, http, lstVars, healthSeen, httpVars>>

\* -------------------------------------------------------------- environment

\* The launching parent exits; the process is re-parented.
ParentDies ==
    /\ Alive
    /\ ppid = OsPids.launcher
    /\ ppid' = OsPids.init
    /\ UNCHANGED <<monVars, cfgVars, instVars, mainPc, mainResult, sigVars, wdVars, tdVars, rpc, http,
                   lstVars, healthSeen, httpVars>>

\* create_listener 376-379: SIGINT wakes the cleanup task, which removes the
\* socket file.
CtrlC ==
    /\ Alive
    /\ cleanup = "waiting"
    /\ sockFile' = FALSE
    /\ cleanup' = "done"
    /\ UNCHANGED <<monVars, cfgVars, instVars, ppid, mainPc, mainResult, sigVars, wdVars, tdVars, rpc,
                   http, listener, port, handshake, handshakeWrites, bindAttempts,
                   bindFailed, healthSeen, httpVars>>

\* ------------------------------------------------- HTTP handlers (rest_api.rs)

\* A handler that also takes the CPU monitor's lock after the accelerator's.
InfoLocksThenCpu == <<"gpu", "cpu">>

\* get_system_info takes state.gpu_monitors.lock() only (rest_api.rs 223).
InfoLocks == <<"gpu">>

\* get_system_metrics takes the five locks in this order (rest_api.rs 276-297).
MetricsLocks == <<"cpu", "memory", "disk", "network", "gpu">>

\* A health handler that looks at the CPU monitor first.
HealthLocksCpu == <<"cpu">>

\* health_check takes no lock (rest_api.rs 198-206).
HealthLocks == << >>

\* The routes of create_router and the locks each handler takes, in order.
LockPlan(kind) ==
    CASE kind = "metrics" -> MetricsLocks
      [] kind = "info"    -> InfoLocks
      [] kind = "health"  -> HealthLocks
      [] OTHER            -> << >>

Routes == {"metrics", "info", "health"}
Idle == [kind |-> "idle", at |-> 0, sampling |-> FALSE]

\* A mutex that never makes a caller wait.
LockFreeAlways(m) == TRUE

\* A tokio Mutex is free when no handler holds its guard.
LockFree(m) == \A h \in Handlers : m \notin hHeld[h]

\* A guard that is dropped as soon as its sample has been taken.
HeldAfterSampleReleased(held, m) == held \ {m}

\* The guards a handler holds after the sample through m's guard: the guard is
\* a local variable of the handler (rest_api.rs 276, 281, 286, 291, 297, 223)
\* and no guard is dropped before the handler returns.
HeldAfterSample(held, m) == held

\* lock() registers the caller as a waiter; tokio's Mutex serves waiters FIFO.
Enqueue(q, kind, at, h) ==
    IF at <= Len(LockPlan(kind))
    THEN [q EXCEPT ![LockPlan(kind)[at]] = Append(@, h)]
    ELSE q

\* The axum server dispatches a request to a handler task, which runs up to
\* its first lock().await.
HttpStart(h, kind) ==
    /\ Alive
    /\ http = "serving"
    /\ hPc[h] = Idle
    /\ hPc' = [hPc EXCEPT ![h] = [kind |-> kind, at |-> 1, sampling |-> FALSE]]
    /\ lockQueue' = Enqueue(lockQueue, kind, 1, h)
    /\ UNCHANGED <<monVars, lifeVars, hHeld>>

\* A pending lock().await completes: the handler is first in line and the
\* mutex is free. It takes the guard and enters the monitor's call through it
\* (get_metrics 277/282/287/292, sample 300, environment_metadata 226), which
\* starts by reading the monitor's stored state.
HttpAcquire(h) ==
    /\ Alive
    /\ hPc[h].kind \in Routes
    /\ hPc[h].at <= Len(LockPlan(hPc[h].kind))
    /\ ~hPc[h].sampling
    /\ LET m == LockPlan(hPc[h].kind)[hPc[h].at]
       IN /\ lockQueue[m] # << >>
          /\ Head(lockQueue[m]) = h
          /\ LockFree(m)
          /\ hHeld' = [hHeld EXCEPT ![h] = @ \cup {m}]
          /\ hPc' = [hPc EXCEPT ![h].sampling = TRUE]
          /\ lockQueue' = [lockQueue EXCEPT ![m] = Tail(@)]
    /\ UNCHANGED <<lifeVars, monVars>>

\* The monitor's call writes its stored state back and returns; the handler
\* runs on to its next lock().await. The guard is a local variable of the
\* handler (276, 281, 286, 291, 297, 223): every guard taken so far stays alive.
HttpSample(h) ==
    /\ Alive
    /\ hPc[h].kind \in Routes
    /\ hPc[h].sampling
    /\ hPc' = [hPc EXCEPT ![h].sampling = FALSE, ![h].at = @ + 1]
    /\ lockQueue' = Enqueue(lockQueue, hPc[h].kind, hPc[h].at + 1, h)
    /\ hHeld' = [hHeld EXCEPT ![h] = HeldAfterSample(@, LockPlan(hPc[h].kind)[hPc[h].at])]
    /\ UNCHANGED <<monVars, lifeVars>>

\* get_system_info refreshing the shared NetworkMonitor and DiskMonitor.
InfoRefreshedMonitorsShared == {"network", "disk"}

\* get_system_info 209-264: the monitors of ApiState it refreshes. It reads the
\* platform through a System (216-218) and a Disks (241-242) of its own, and of
\* ApiState it uses gpu_monitors alone.
InfoRefreshedMonitors == {}

\* What an info request does to the NetworkMonitor and the DiskMonitor: it
\* moves their windows only if they are among the monitors it refreshes.
NetAfterInfo ==
    IF "network" \in InfoRefreshedMonitors
    THEN NetworkGetMetrics(net, netRead, now, FALSE).mon ELSE net
DiskAfterInfo ==
    IF "disk" \in InfoRefreshedMonitors
    THEN DiskWindowAfter(disk, [d \in {} |-> StatIdle], now) ELSE disk

\* get_system_metrics 307-320 / get_system_info 243-264: the response is built
\* and returned; the guards are dropped when the handler returns.
HttpReturn(h) ==
    /\ Alive
    /\ hPc[h].kind \in {"metrics", "info"}
    /\ hPc[h].at = Len(LockPlan(hPc[h].kind)) + 1
    /\ ~hPc[h].sampling
    /\ hHeld' = [hHeld EXCEPT ![h] = {}]
    /\ hPc' = [hPc EXCEPT ![h] = Idle]
    /\ net' = (IF hPc[h].kind = "info" THEN NetAfterInfo ELSE net)
    /\ disk' = (IF hPc[h].kind = "info" THEN DiskAfterInfo ELSE disk)
    /\ UNCHANGED <<subject, overflow_checks, now, calls, netRead, netOut, diskRead, diskOut,
                   resets, gaugeVars, apiVars, rpcVars, lifeVars, lockQueue>>

\* health_check 198-206: answers status "healthy". healthSeen records whether
\* the portfile had been written when the answer was given.
health_check(h) ==
    /\ Alive
    /\ hPc[h].kind = "health"
    /\ hPc[h].at = Len(LockPlan("health")) + 1
    /\ healthSeen' = healthSeen \cup {handshake # NoToken}
    /\ hHeld' = [hHeld EXCEPT ![h] = {}]
    /\ hPc' = [hPc EXCEPT ![h] = Idle]
    /\ UNCHANGED <<monVars, cfgVars, instVars, ppid, mainPc, mainResult, sigVars, wdVars, tdVars, rpc,
                   http, lstVars, lockQueue>>

\* ------------------------------------------- sample calls on the rate monitors

\* One get_metrics call on the NetworkMonitor (rest_api.rs 292), made under
\* the monitor's guard: dt ticks after the previous call, get_totals returns
\* totals. A panic unwinds the call and leaves the monitor as it was.
NetSample ==
    /\ Alive
    /\ http = "serving"
    /\ subject = "network"
    /\ calls < MaxCalls
    /\ \E dt \in 0..MaxDt, totals \in NetReadings :
          \E r \in {NetworkGetMetrics(net, totals, now + dt, overflow_checks)} :
             /\ now' = now + dt
             /\ netRead' = totals
             /\ net' = r.mon
             /\ netOut' = [status |-> r.status, metrics |-> r.metrics]
             /\ resets' = {<<"network", f>> : f \in {g \in NetFamilies : totals[g] < net.prev[g]}}
    /\ calls' = calls + 1
    /\ UNCHANGED <<lifeVars, httpVars, subject, overflow_checks, disk, diskRead, diskOut,
                   gaugeVars, apiVars, rpcVars>>

\* One get_metrics call on the DiskMonitor (rest_api.rs 287), made under the
\* monitor's guard: dt ticks after the previous call, disks.list() gives the
\* mounted filesystems and procfs::diskstats() returns reading.
DiskSample ==
    /\ Alive
    /\ http = "serving"
    /\ subject = "disk"
    /\ calls < MaxCalls
    /\ \E dt \in 0..MaxDt, reading \in DiskReadings :
          \E r \in {DiskGetMetrics(disk, mounts, reading, now + dt, overflow_checks)} :
             /\ now' = now + dt
             /\ diskRead' = Some(reading)
             /\ disk' = r.mon
             /\ diskOut' = [status |-> r.status, metrics |-> r.metrics]
             /\ resets' = IF reading.ok /\ IsSome(disk.prev_disk_stats)
                          THEN DiskResets(Unwrap(disk.prev_disk_stats), reading.stats)
                          ELSE {}
    /\ calls' = calls + 1
    /\ UNCHANGED <<lifeVars, httpVars, subject, overflow_checks, net, netRead, netOut,
                   gaugeVars, apiVars, rpcVars>>

\* One get_metrics call on the MemoryMonitor (rest_api.rs 282), made under the
\* monitor's guard: sysinfo reports r.
MemSample ==
    /\ Alive
    /\ http = "serving"
    /\ subject = "memory"
    /\ calls < MaxCalls
    /\ \E r \in MemReadings :
          /\ memRead' = Some(r)
          /\ memOut' = MemoryGetMetrics(r)
    /\ calls' = calls + 1
    /\ UNCHANGED <<lifeVars, httpVars, subject, overflow_checks, now, net, netRead, netOut,
                   disk, diskRead, diskOut, resets, mounts, apiVars,
                   rpcVars>>

\* The end of one /api/system/metrics request (rest_api.rs 309-319): the five
\* snapshots it collected are converted and the response is returned. The
\* request may name a node_id (272).
Convert ==
    /\ Alive
    /\ http = "serving"
    /\ dto = None
    /\ \E query \in {None, Some("worker")}, order \in IdOrders(GpuIds(snap.gpu)) :
          dto' = Some(convert_to_response(UnwrapOr(query, StateNodeId), snap, order))
    /\ UNCHANGED <<lifeVars, httpVars, subject, overflow_checks, now, calls, net, netRead,
                   netOut, disk, diskRead, diskOut, resets, gaugeVars, snap, rpcVars>>

\* The readings a followed metrics request may see: the interface counters all
\* idle or all at their top, with or without packets; diskstats failing, or
\* every device idle, or every device at the top of the range.
RequestNetReadings ==
    {r \in NetReadings : r.rx_bytes = r.tx_bytes /\ r.rx_packets = r.tx_packets}
RequestDiskReadings ==
    {r \in DiskReadings :
        \A d, e \in DOMAIN r.stats : r.stats[d] = r.stats[e] /\ r.stats[d] # StatRead}

\* The snapshots of the monitors that keep no window, as one request sees
\* them (rest_api.rs 276-282, 297-304).
RequestCpuSnap == CpuFull
RequestMemSnap ==
    Tagged(MemoryGetMetrics([total_memory |-> 10, used_memory |-> 9, total_swap |-> 4,
                             used_swap |-> 1]).metrics)
RequestGpuSnap == GpuAll

\* get_system_metrics 267-320, one whole request: dt ticks after the previous
\* one it samples the DiskMonitor (286-287) and then the NetworkMonitor
\* (291-292) under their guards, converts the five snapshots (309-316) and
\* answers. A panic in a sample call unwinds the handler: the monitors sampled
\* before it keep their new window, the later ones are not reached and no
\* response is built.
get_system_metrics ==
    /\ Alive
    /\ http = "serving"
    /\ calls < MaxRequests
    /\ \E dt \in 0..MaxDt, totals \in RequestNetReadings, reading \in RequestDiskReadings,
          query \in {None, Some("worker")}, order \in IdOrders(GpuIds(RequestGpuSnap)) :
          \E d \in {DiskGetMetrics(disk, mounts, reading, now + dt, overflow_checks)} :
          \E n \in {IF d.status = "ok"
                    THEN NetworkGetMetrics(net, totals, now + dt, overflow_checks)
                    ELSE [status |-> "none", metrics |-> NoMetrics, mon |-> net]} :
             /\ now' = now + dt
             /\ diskRead' = Some(reading)
             /\ disk' = d.mon
             /\ diskOut' = [status |-> d.status, metrics |-> d.metrics]
             /\ netRead' = (IF d.status = "ok" THEN totals ELSE netRead)
             /\ net' = n.mon
             /\ netOut' = [status |-> n.status, metrics |-> n.metrics]
             /\ snap' = (IF n.status = "ok"
                         THEN [cpu |-> RequestCpuSnap, memory |-> RequestMemSnap,
                               disk |-> Tagged(d.metrics), network |-> Tagged(n.metrics),
                               gpu |-> RequestGpuSnap]
                         ELSE snap)
             /\ dto' = (IF n.status = "ok"
                        THEN Some(convert_to_response(UnwrapOr(query, StateNodeId),
                                                      snap', order))
                        ELSE dto)
    /\ calls' = calls + 1
    /\ UNCHANGED <<lifeVars, httpVars, subject, overflow_checks, resets, gaugeVars, rpcVars>>

\* What an RPC sample does to the NetworkMonitor and the DiskMonitor: it reads
\* them only if they are among the monitors sample() collects from.
NetAfterRpcSample ==
    IF "network" \in RpcSampledMonitors
    THEN NetworkGetMetrics(net, netRead, now, FALSE).mon ELSE net
DiskAfterRpcSample ==
    IF "disk" \in RpcSampledMonitors
    THEN DiskWindowAfter(disk, [d \in {} |-> StatIdle], now) ELSE disk

\* get_stats 258-300: one GetStats call.
GetStats ==
    /\ Alive
    /\ rpc \in {"serving", "draining"}
    /\ \E pid \in RequestPids, ids \in RequestDeviceIds :
          \E all_metrics \in {RpcSample(pid, DeviceFilter(ids), now)} :
             /\ sampled' = all_metrics
             /\ rpcReply' = [op |-> "GetStats", item |-> StatsItems(all_metrics)]
    /\ net' = NetAfterRpcSample
    /\ disk' = DiskAfterRpcSample
    /\ UNCHANGED <<lifeVars, httpVars, subject, overflow_checks, now, calls, netRead, netOut,
                   diskRead, diskOut, resets, gaugeVars, apiVars>>

\* get_metadata 231-255: one GetMetadata call.
GetMetadata ==
    /\ Alive
    /\ rpc \in {"serving", "draining"}
    /\ \E all_metrics \in {RpcSample(0, None, now)} :
          /\ sampled' = all_metrics
          /\ rpcReply' = [op |-> "GetMetadata",
                          record |-> CollectMetadata(SamplesMap(all_metrics))]
    /\ net' = NetAfterRpcSample
    /\ disk' = DiskAfterRpcSample
    /\ UNCHANGED <<lifeVars, httpVars, subject, overflow_checks, now, calls, netRead, netOut,
                   diskRead, diskOut, resets, gaugeVars, apiVars>>

\* ------------------------------------------------------------ specification
Main == NewService \/ StartRest \/ BindListener \/ WriteToken \/ Serve
          \/ RpcObserveShutdown \/ RpcDrained \/ JoinRest
Watchdog == WdPoll \/ WdLock \/ WdFire
TearDown(c) == TdStart(c) \/ TdShutdownGpu(c) \/ TdLock(c) \/ TdTakeSend(c) \/ TdReturn(c)

Next ==
    \/ NewService \/ StartRest \/ BindListener \/ WriteToken \/ Serve
    \/ RpcObserveShutdown \/ RpcDrained \/ JoinRest
    \/ WdPoll \/ WdLock \/ WdFire
    \/ \E c \in Clients :
          TdStart(c) \/ TdShutdownGpu(c) \/ TdLock(c) \/ TdTakeSend(c) \/ TdReturn(c)
    \/ ParentDies \/ CtrlC

Spec == Init /\ [][Next]_vars

\* Startup of main together with the HTTP surface's health route: the REST
\* task, once spawned, answers requests while main goes on to create the RPC
\* listener.
StartupNext ==
    \/ NewService \/ StartRest \/ BindListener \/ WriteToken \/ Serve
    \/ \E h \in Handlers : HttpStart(h, "health") \/ health_check(h)

StartupSpec == Init /\ [][StartupNext]_vars

\* The whole life of the process with a client that probes /api/health through
\* one connection: main, the watchdog and TearDown as in Spec, and the health
\* route whenever the REST task is up.
Prober == CHOOSE h \in Handlers : \A g \in Handlers : h <= g

LingerNext == Next \/ HttpStart(Prober, "health") \/ health_check(Prober)

LingerSpec == Init /\ [][LingerNext]_vars

\* The tokio runtime keeps polling ready tasks: main, the watchdog and every
\* accepted request handler make progress; requests, signals and the parent's
\* death are the environment's choice.
Fairness ==
    /\ WF_vars(Main)
    /\ WF_vars(Watchdog)
    /\ \A c \in Clients :
          WF_vars(TdShutdownGpu(c) \/ TdLock(c) \/ TdTakeSend(c) \/ TdReturn(c))

FairSpec == Spec /\ Fairness

\* The HTTP surface of a started service (REST enabled, RPC serving on the
\* loopback listener) under any number of requests to its three routes.
StartedService ==
    /\ platform = "unix"
    /\ args = [parent_pid |-> 0, listen_on_localhost |-> TRUE, enable_rest_api |-> TRUE]
    /\ ppid = OsPids.launcher
    /\ mainPc = "serving"
    /\ mainResult = "running"
    /\ shutdown_sender = "Some"
    /\ senderLock = <<"free">>
    /\ chan = "armed"
    /\ sendCount = 0
    /\ wd = "none"
    /\ wdSawGone = FALSE
    /\ wdPollAfterGone = FALSE
    /\ wdSends = 0
    /\ gpuState = "active"
    /\ tdPc = [c \in Clients |-> "idle"]
    /\ tdAfter = [c \in Clients |-> FALSE]
    /\ tdResult = [c \in Clients |-> "none"]
    /\ tdReturned = FALSE
    /\ rpc = "serving"
    /\ http = "serving"
    /\ listener = "tcp"
    /\ port \in Ports
    /\ handshake = HandshakeToken(TRUE, port, SocketPath(args.parent_pid))
    /\ handshakeWrites = 1
    /\ bindAttempts = 1
    /\ bindFailed = FALSE
    /\ sockFile = FALSE
    /\ cleanup = "none"
    /\ healthSeen = {}
    /\ constructed = Construct(Construct([m \in Monitors |-> 0], {"gpu"}), RestMonitors)
    /\ surfaceGpu = [rpc |-> 1, http |-> 2]
    /\ hPc = [h \in Handlers |-> Idle]
    /\ hHeld = [h \in Handlers |-> {}]
    /\ lockQueue = [m \in Monitors |-> << >>]

HttpInit == StartedService /\ MonIdle /\ ApiIdle /\ RpcIdle

HttpNext ==
    \E h \in Handlers :
        \/ HttpStart(h, "metrics") \/ HttpStart(h, "info") \/ HttpStart(h, "health")
        \/ HttpAcquire(h) \/ HttpSample(h) \/ HttpReturn(h) \/ health_check(h)

HttpSpec == HttpInit /\ [][HttpNext]_vars

\* Every accepted request's handler task keeps being polled.
HttpFairness ==
    \A h \in Handlers : WF_vars(HttpAcquire(h) \/ HttpSample(h) \/ HttpReturn(h) \/ health_check(h))

FairHttpSpec == HttpSpec /\ HttpFairness

\* The sample calls on one rate monitor of a started service, in the order
\* the monitor's guard admits them: any build, any first reading, any
\* readings and time steps after that.
MonitorInit ==
    /\ StartedService
    /\ \A p \in Ports : port <= p
    /\ subject \in {"network", "disk"}
    /\ overflow_checks \in BOOLEAN
    /\ now = 0
    /\ calls = 0
    /\ netRead \in (IF subject = "network" THEN NetReadings ELSE {ZeroTotals})
    /\ net = NetworkMonitorNew(netRead)
    /\ netOut = NoSnapshot
    /\ disk = DiskMonitorNew
    /\ diskRead = None
    /\ diskOut = NoSnapshot
    /\ resets = {}
    /\ GaugeIdle
    /\ ApiIdle
    /\ RpcIdle

MonitorNext == NetSample \/ DiskSample

MonitorSpec == MonitorInit /\ [][MonitorNext]_vars

\* The sample calls on the memory monitor and on the disk monitor of a started
\* service, over any mounted filesystems.
GaugeInit ==
    /\ StartedService
    /\ \A p \in Ports : port <= p
    /\ subject \in {"memory", "disk"}
    /\ overflow_checks \in BOOLEAN
    /\ now = 0
    /\ calls = 0
    /\ netRead = ZeroTotals
    /\ net = NetworkMonitorNew(netRead)
    /\ netOut = NoSnapshot
    /\ disk = DiskMonitorNew
    /\ diskRead = None
    /\ diskOut = NoSnapshot
    /\ resets = {}
    /\ mounts \in (IF subject = "disk" THEN MountReadings ELSE {<<Fs(Root, 4, 1)>>})
    /\ memRead = None
    /\ memOut = NoSnapshot
    /\ ApiIdle
    /\ RpcIdle

GaugeNext == MemSample \/ DiskSample

GaugeSpec == GaugeInit /\ [][GaugeNext]_vars

\* The sample calls on the memory monitor alone.
MemoryInit == GaugeInit /\ subject = "memory" /\ ~overflow_checks

MemorySpec == MemoryInit /\ [][MemSample]_vars

\* convert_to_response on the snapshots one request may have collected.
ConvertInit ==
    /\ StartedService
    /\ \A p \in Ports : port <= p
    /\ MonIdle
    /\ snap \in ConvertInputs
    /\ dto = None
    /\ RpcIdle

ConvertSpec == ConvertInit /\ [][Convert]_vars

\* The two surfaces of a started service side by side: a metrics request
\* sampling the NetworkMonitor over HTTP while an RPC client calls GetStats,
\* GetMetadata and TearDown. The NetworkMonitor has served all but one of the
\* sample calls that are followed, each at time 0 with idle counters, so its
\* window exists.
SurfaceInit ==
    /\ StartedService
    /\ \A p \in Ports : port <= p
    /\ subject = "network"
    /\ overflow_checks = FALSE
    /\ now = 0
    /\ calls = MaxCalls - 1
    /\ netRead = ZeroTotals
    /\ \E r \in {NetworkGetMetrics(NetworkMonitorNew(ZeroTotals), ZeroTotals, 0, FALSE)} :
          /\ net = r.mon
          /\ netOut = [status |-> r.status, metrics |-> r.metrics]
    /\ disk = DiskMonitorNew
    /\ diskRead = None
    /\ diskOut = NoSnapshot
    /\ resets = {}
    /\ GaugeIdle
    /\ ApiIdle
    /\ RpcIdle

SurfaceNext == NetSample \/ GetStats \/ GetMetadata \/ TearDown(1)

SurfaceSpec == SurfaceInit /\ [][SurfaceNext]_vars

\* /api/system/info requests between the sample calls that metrics requests
\* make on the NetworkMonitor, from the same started service.
InfoNext ==
    \/ NetSample
    \/ \E h \in Handlers :
          HttpStart(h, "info") \/ HttpAcquire(h) \/ HttpSample(h) \/ HttpReturn(h)

InfoSpec == SurfaceInit /\ [][InfoNext]_vars

\* The metrics requests of a started service one after the other, each
\* sampling the DiskMonitor and the NetworkMonitor: any build, any first
\* interface reading, a small or an overflowing list of filesystems.
RequestInit ==
    /\ StartedService
    /\ \A p \in Ports : port <= p
    /\ subject = "network"
    /\ overflow_checks \in BOOLEAN
    /\ now = 0
    /\ calls = 0
    /\ netRead \in RequestNetReadings
    /\ net = NetworkMonitorNew(netRead)
    /\ netOut = NoSnapshot
    /\ disk = DiskMonitorNew
    /\ diskRead = None
    /\ diskOut = NoSnapshot
    /\ resets = {}
    /\ mounts \in {<<Fs(Root, 4, 1)>>, <<Fs(Root, U64Max, 0), Fs(Data, 2, 2)>>}
    /\ memRead = None
    /\ memOut = NoSnapshot
    /\ ApiIdle
    /\ RpcIdle

RequestSpec == RequestInit /\ [][get_system_metrics]_vars

\* The sample calls on the DiskMonitor of a started service after its first
\* one: that call was made at time 0 while the second disk was not there, so
\* the stored reading holds the first disk and its partition only.
DeviceInit ==
    /\ StartedService
    /\ \A p \in Ports : port <= p
    /\ subject = "disk"
    /\ overflow_checks \in BOOLEAN
    /\ now = 0
    /\ calls = 1
    /\ netRead = ZeroTotals
    /\ net = NetworkMonitorNew(netRead)
    /\ netOut = NoSnapshot
    /\ GaugeIdle
    /\ \E reading \in {r \in DiskReadings : r.ok /\ Sdb \notin DOMAIN r.stats} :
          \E r \in {DiskGetMetrics(DiskMonitorNew, mounts, reading, 0, overflow_checks)} :
             /\ diskRead = Some(reading)
             /\ disk = r.mon
             /\ diskOut = [status |-> r.status, metrics |-> r.metrics]
    /\ resets = {}
    /\ ApiIdle
    /\ RpcIdle

DeviceSpec == DeviceInit /\ [][DiskSample]_vars

\* ------------------------------------------------------------------ claims

\* The service has started and the process has not exited.
ProcessUp == mainPc \in {"serving", "join_rest"}

\* C1: in every interleaving of TearDown calls and the watchdog the shutdown
\* signal is sent at most once: the slot is non-empty exactly while nothing has
\* been sent, an attempt that finds the slot empty sends nothing, and an empty
\* slot never becomes non-empty again.
C1_SignalSentAtMostOnce ==
    /\ [](sendCount <= 1 /\ (shutdown_sender = "Some" <=> sendCount = 0))
    /\ [][shutdown_sender = "None" =>
             (shutdown_sender' = "None" /\ sendCount' = sendCount)]_vars

\* Both producers have attempted to fire and exactly one send was made.
C1_Witness == sendCount = 1 /\ wd = "stopped" /\ tdReturned

\* C2: a TearDown call made after an earlier TearDown call has returned never
\* panics and never fails: once finished, its outcome is Ok.
C2_SecondTearDownOk ==
    \A c \in Clients : (tdAfter[c] /\ tdPc[c] = "idle") => tdResult[c] = "Ok"

\* A call that began after another one returned has itself returned Ok.
C2_Witness == \E c \in Clients : tdAfter[c] /\ tdPc[c] = "idle" /\ tdResult[c] = "Ok"

\* C3: a TearDown call after the first is a no-op on the service state: no
\* step of a call that began after an earlier call returned changes the sender
\* slot, the shutdown channel or the accelerator aggregator.
C3_LaterTearDownNoOp ==
    [][\A c \in Clients :
          (tdAfter[c] /\ tdPc[c] # "idle" /\ tdPc'[c] # tdPc[c]) =>
             UNCHANGED <<shutdown_sender, chan, sendCount, gpuState>>]_vars

\* A later call has run to completion on a fired, shut-down service.
C3_Witness ==
    /\ \E c \in Clients : tdAfter[c] /\ tdPc[c] = "idle" /\ tdResult[c] = "Ok"
    /\ shutdown_sender = "None" /\ gpuState = "shut_down" /\ sendCount = 1

C5_HealthOnlyAfterHandshake == FALSE \notin healthSeen

\* C6: the handshake token is written exactly once, after the RPC listener is
\* bound and before the RPC server accepts, as sock=<port> for TCP (always on
\* windows) and unix=<path> for the domain socket, and is never rewritten.
C6_HandshakeWrittenOnce ==
    /\ [](/\ handshakeWrites <= 1
          /\ (handshakeWrites = 1 <=> handshake # NoToken)
          /\ (rpc # "not_started" => handshakeWrites = 1)
          /\ (handshake # NoToken =>
                /\ listener # "none" /\ ~bindFailed
                /\ (listener = "tcp" => handshake = <<"sock=", port>>)
                /\ (listener = "unix" =>
                      handshake = <<"unix=", SocketPath(args.parent_pid)>>)
                /\ (listener = "tcp" <=>
                      (platform = "windows" \/ args.listen_on_localhost))))
    /\ [][handshake' # handshake => (handshake = NoToken /\ rpc = "not_started")]_vars

\* The RPC server accepts on the domain socket with its token written once.
C6_Witness == rpc = "serving" /\ handshakeWrites = 1 /\ handshake[1] = "unix="

\* C7: once the signal has fired on a serving RPC server the serve call
\* eventually returns, and main awaits the REST task only after that.
C7_RpcStopsThenHttpJoin ==
    /\ (mainPc = "serving" /\ chan # "armed") ~> rpc = "stopped"
    /\ []((mainPc = "join_rest" \/ mainResult = "Ok") => rpc = "stopped")

\* main is waiting on the REST task after the RPC server has stopped.
C7_Witness ==
    mainPc = "join_rest" /\ http = "serving" /\ rpc = "stopped" /\ chan = "consumed"

\* C8: after a shutdown through the shutdown signal the domain socket file is gone.
C8_SocketFileRemovedOnShutdown == (listener = "unix" /\ rpc = "stopped") => ~sockFile

\* C9: a failed bind of the RPC listener is fatal and not retried: main has
\* returned an error after a single attempt, no token is written and the RPC
\* server never starts.
C9_BindFailureFatal ==
    bindFailed =>
        /\ mainPc = "exited" /\ mainResult = "Err"
        /\ bindAttempts = 1 /\ listener = "none"
        /\ handshake = NoToken /\ handshakeWrites = 0
        /\ rpc = "not_started"

\* The bind failed with the REST surface already serving.
C9_Witness == bindFailed /\ mainResult = "Err" /\ http = "serving"

\* Position of a monitor lock in the order CPU, Memory, Disk, Network, Accelerator.
LockRank(m) ==
    CASE m = "cpu" -> 1 [] m = "memory" -> 2 [] m = "disk" -> 3
      [] m = "network" -> 4 [] m = "gpu" -> 5

\* C10: a handler takes a monitor lock only while every lock it holds comes
\* earlier in the order CPU, Memory, Disk, Network, Accelerator, and every
\* started metrics, info or health handler eventually completes.
C10_LockOrderNoDeadlock ==
    /\ [][\A h \in Handlers : \A m \in hHeld'[h] \ hHeld[h] :
             \A held \in hHeld[h] : LockRank(held) < LockRank(m)]_vars
    /\ \A h \in Handlers : (hPc[h] # Idle) ~> (hPc[h] = Idle)

\* A metrics handler holds four guards and queues for the accelerator lock,
\* which an info handler holds, while a third handler waits for the CPU lock.
C10_Witness ==
    \E a, b, c \in Handlers :
        /\ hHeld[a] = {"cpu", "memory", "disk", "network"}
        /\ hHeld[b] = {"gpu"}
        /\ hPc[c] = [kind |-> "metrics", at |-> 1, sampling |-> FALSE]
        /\ lockQueue["gpu"] = <<a>>

\* Handler h is inside the call it makes through monitor m's guard.
Sampling(h, m) ==
    /\ hPc[h].kind \in Routes
    /\ hPc[h].sampling
    /\ LockPlan(hPc[h].kind)[hPc[h].at] = m

\* Handler h has sampled every monitor and is building its response
\* (convert_to_response, rest_api.rs 309-316).
Converting(h) ==
    /\ hPc[h].kind = "metrics"
    /\ ~hPc[h].sampling
    /\ hPc[h].at = Len(MetricsLocks) + 1

\* C11: the metrics handler holds no other monitor lock while it samples a
\* monitor, and holds no monitor lock while it converts the raw snapshots into
\* the response.
C11_ReleaseBeforeNextSample ==
    \A h \in Handlers :
        /\ \A m \in Monitors :
              (hPc[h].kind = "metrics" /\ Sampling(h, m)) => hHeld[h] \subseteq {m}
        /\ Converting(h) => hHeld[h] = {}

\* C12: on each monitor at most one handler is inside a sample call at any
\* time, that handler holds the monitor's guard and nobody else does: a sample
\* call begins only after the previous one on that monitor has returned.
C12_SamplesSerialized ==
    \A m \in Monitors :
        /\ Cardinality({h \in Handlers : Sampling(h, m)}) <= 1
        /\ \A h \in Handlers : Sampling(h, m) =>
              /\ m \in hHeld[h]
              /\ \A g \in Handlers \ {h} : m \notin hHeld[g]

\* A metrics handler is sampling the accelerators while an info handler waits
\* for the same lock and a third handler waits for the CPU monitor's lock.
C12_Witness ==
    \E a, b, c \in Handlers :
        /\ hPc[a].kind = "metrics" /\ Sampling(a, "gpu")
        /\ hPc[b].kind = "info" /\ lockQueue["gpu"] = <<b>>
        /\ hPc[c].kind = "metrics" /\ lockQueue["cpu"] = <<c>>

\* C13: each domain monitor and the accelerator aggregator exists as at most
\* one instance in the process, and once both surfaces are up the RPC surface
\* and the HTTP surface read the same aggregator instance.
C13_OneInstancePerMonitor ==
    /\ \A m \in Monitors : constructed[m] <= 1
    /\ (surfaceGpu.rpc # 0 /\ surfaceGpu.http # 0) => surfaceGpu.rpc = surfaceGpu.http

\* ------------------------------------------------------ claims on rate windows

\* The step is a sample call on the followed monitor.
SampleStep == calls' = calls + 1

\* The latest snapshot of the followed monitor, its rate keys, and the window
\* timestamp held before a step.
SubjectOut == IF subject = "network" THEN netOut ELSE diskOut
SubjectRateKeys == IF subject = "network" THEN NetRateKeys ELSE DiskRateKeys
RateKeysIn(out) == {k \in DOMAIN out.metrics : IsRateKey(k)}
HadWindow ==
    IF subject = "network" THEN IsSome(net.prev_time)
    ELSE IsSome(disk.prev_disk_stats) /\ IsSome(disk.prev_time)
WindowTime == IF subject = "network" THEN Unwrap(net.prev_time) ELSE Unwrap(disk.prev_time)

\* C14: the snapshot of the first get_metrics call on a fresh NetworkMonitor or
\* DiskMonitor is produced and holds no key ending in _per_sec, whatever the
\* counters were at construction and at the call.
C14_FirstSnapshotNoRates ==
    calls = 1 => (SubjectOut.status = "ok" /\ RateKeysIn(SubjectOut) = {})

\* The first call on a NetworkMonitor came later than its construction with
\* the byte counter far above the value it was primed with.
C14_Witness ==
    /\ subject = "network" /\ calls = 1 /\ now > 0
    /\ netRead.rx_bytes = U64Max /\ netOut.status = "ok"
    /\ DOMAIN netOut.metrics = NetTotalKeys

\* C15 as stated: in every snapshot produced, the rate keys are all present if
\* a previous window existed when the sample was taken and the elapsed time
\* was > 0, and all absent otherwise.
C15_RatesIffWindowAndElapsed ==
    [][(SampleStep /\ SubjectOut'.status = "ok") =>
          IF HadWindow /\ now' > WindowTime
          THEN SubjectRateKeys \subseteq DOMAIN SubjectOut'.metrics
          ELSE RateKeysIn(SubjectOut') = {}]_vars

\* C15 amended: in every snapshot produced, the rate keys are all present if
\* a previous window existed when the sample was taken, the elapsed time was
\* > 0 and (disk) the read of the I/O counters succeeded, and all absent
\* otherwise.
C15_RatesIffWindowElapsedAndRead ==
    [][(SampleStep /\ SubjectOut'.status = "ok") =>
          IF /\ HadWindow /\ now' > WindowTime
             /\ (subject = "disk" => Unwrap(diskRead').ok)
          THEN SubjectRateKeys \subseteq DOMAIN SubjectOut'.metrics
          ELSE RateKeysIn(SubjectOut') = {}]_vars

\* A DiskMonitor with a window older than now has just failed to read the I/O
\* counters: its snapshot carries no rate and the window is still the old one.
C15_Witness ==
    /\ subject = "disk" /\ calls = 3
    /\ ~Unwrap(diskRead).ok
    /\ IsSome(disk.prev_disk_stats) /\ Unwrap(disk.prev_time) < now
    /\ diskOut.status = "ok" /\ RateKeysIn(diskOut) = {}

\* C16: a sample taken with elapsed <= 0 against an existing window emits no
\* rate and leaves the stored window (previous counters and previous
\* timestamp) unchanged.
C16_ZeroElapsedKeepsWindow ==
    [][(SampleStep /\ HadWindow /\ now' <= WindowTime
          /\ (subject = "disk" => Unwrap(diskRead').ok)) =>
          /\ RateKeysIn(SubjectOut') = {}
          /\ net' = net /\ disk' = disk]_vars

\* The counter of a DiskStat that feeds a disk rate family.
CounterOf(f) ==
    CASE f = "io_read_bytes" -> "sectors_read" [] f = "io_write_bytes" -> "sectors_written"
      [] f = "io_read_ops" -> "reads" [] f = "io_write_ops" -> "writes"

\* A device table without device d.
Without(tb, d) == [x \in DOMAIN tb \ {d} |-> tb[x]]

\* The whole disks that two device tables have in common.
WholeInBoth(prev, cur) == {d \in DOMAIN prev \cap DOMAIN cur : d[Len(d)] \notin Digits}

\* C17: when a counter is lower than its stored value the delta is taken as 0.
\* Network: the rate emitted for that family is exactly 0. Disk: a whole disk
\* whose counter went down adds nothing to the family's rate (the rate is the
\* one the other devices alone give), and the rate is exactly 0 when no whole
\* disk's counter went up.
C17_ResetGivesZeroRate ==
    [][(SampleStep /\ SubjectOut'.status = "ok" /\ RateKeysIn(SubjectOut') # {}) =>
          /\ subject = "network" =>
                \A f \in NetFamilies :
                    netRead'[f] < net.prev[f] =>
                        netOut'.metrics[<<"network", f, "_per_sec">>] = 0
          /\ subject = "disk" =>
                LET prev == Unwrap(disk.prev_disk_stats)
                    cur  == Unwrap(diskRead').stats
                    el   == now' - Unwrap(disk.prev_time)
                IN \A f \in DiskFamilies :
                      /\ \A d \in WholeInBoth(prev, cur) :
                            cur[d][CounterOf(f)] < prev[d][CounterOf(f)] =>
                                diskOut'.metrics[<<"disk", f, "_per_sec">>]
                                    = AsI64(DiskRate(prev, Without(cur, d), el, f))
                      /\ (\A d \in WholeInBoth(prev, cur) :
                             cur[d][CounterOf(f)] <= prev[d][CounterOf(f)])
                            => diskOut'.metrics[<<"disk", f, "_per_sec">>] = 0]_vars

\* The latest reading showed the received-bytes counter below the window and
\* the snapshot carries a rate of 0 for it next to the other rates.
C17_Witness ==
    /\ subject = "network" /\ <<"network", "rx_bytes">> \in resets
    /\ netOut.status = "ok" /\ NetRateKeys \subseteq DOMAIN netOut.metrics
    /\ netOut.metrics[<<"network", "rx_bytes", "_per_sec">>] = 0
    /\ netOut.metrics[<<"network", "rx_packets", "_per_sec">>] > 0

\* C18: with a positive elapsed time and no counter below its stored value,
\* every rate in the snapshot, the combined network bandwidth and the combined
\* disk operations rate included, is >= 0.
C18_RatesNonNegative ==
    [][(SampleStep /\ SubjectOut'.status = "ok" /\ resets' = {}) =>
          \A k \in RateKeysIn(SubjectOut') : SubjectOut'.metrics[k] >= 0]_vars

\* The rate a snapshot carries under key k, None if it has none.
RateIn(metrics, k) == IF k \in DOMAIN metrics THEN Some(metrics[k]) ELSE None

\* C19: the rate emitted for a family depends only on that family's own
\* previous and current counter values and the window timestamp: a sample call
\* that differs only in the other families' previous and current values emits
\* the same rate for it.
C19_FamiliesIndependent ==
    [][(SampleStep /\ HadWindow) =>
          /\ subject = "network" =>
                \A f \in NetFamilies :
                  \A altPrev, altCur \in NetReadings :
                    (altPrev[f] = net.prev[f] /\ altCur[f] = netRead'[f]) =>
                        RateIn(NetworkGetMetrics([prev |-> altPrev, prev_time |-> net.prev_time],
                                                 altCur, now', overflow_checks).metrics,
                               <<"network", f, "_per_sec">>)
                          = RateIn(netOut'.metrics, <<"network", f, "_per_sec">>)
          /\ (subject = "disk" /\ Unwrap(diskRead').ok) =>
                LET prev == Unwrap(disk.prev_disk_stats)
                    cur  == Unwrap(diskRead').stats
                IN \A f \in DiskFamilies :
                     \A altPrev, altCur \in DiskTables :
                       (/\ DOMAIN altPrev = DOMAIN prev /\ DOMAIN altCur = DOMAIN cur
                        /\ \A d \in DOMAIN prev : altPrev[d][CounterOf(f)] = prev[d][CounterOf(f)]
                        /\ \A d \in DOMAIN cur : altCur[d][CounterOf(f)] = cur[d][CounterOf(f)]) =>
                           RateIn(DiskGetIoMetrics([prev_disk_stats |-> Some(altPrev),
                                                    prev_time |-> disk.prev_time],
                                                   [ok |-> TRUE, stats |-> altCur], now',
                                                   overflow_checks).metrics,
                                  <<"disk", f, "_per_sec">>)
                             = RateIn(diskOut'.metrics, <<"disk", f, "_per_sec">>)]_vars

\* C20: whenever the latest snapshot carries rates, the stored window is
\* exactly the counters and the timestamp of the sample that produced it.
C20_WindowIsLatestSample ==
    RateKeysIn(SubjectOut) # {} =>
        /\ subject = "network" => net = [prev |-> netRead, prev_time |-> Some(now)]
        /\ subject = "disk" =>
              disk = [prev_disk_stats |-> Some(Unwrap(diskRead).stats),
                      prev_time |-> Some(now)]

\* A third call measured a packet rate from the reading of the second call.
C20_Witness ==
    /\ subject = "network" /\ calls = 3 /\ resets = {}
    /\ NetRateKeys \subseteq DOMAIN netOut.metrics
    /\ netRead.rx_packets = 1 /\ net.prev.rx_packets = 1
    /\ netOut.metrics[<<"network", "rx_packets", "_per_sec">>] > 0

\* ------------------------------------------------- claims on gauges and the DTO

\* The percentage keys of a snapshot, and the range 0.0 ..= 100.0.
PercentKeysIn(out) == {k \in DOMAIN out.metrics : k[3] = "_percent"}
InPercentRange(p) == Leq(F64(0), p) /\ Leq(p, F64(PercentScale))

\* C21: every usage percentage in a memory or disk snapshot
\* (memory.usage_percent, memory.swap_usage_percent, disk.usage_percent,
\* disk.root.usage_percent) lies in 0 ..= 100 whatever the platform reported,
\* and is exactly 0 when its denominator (total memory, total swap, total disk
\* space) is 0.
C21_PercentagesInRange ==
    /\ \A k \in PercentKeysIn(memOut) : InPercentRange(memOut.metrics[k])
    /\ \A k \in PercentKeysIn(diskOut) : InPercentRange(diskOut.metrics[k])
    /\ (IsSome(memRead) /\ Unwrap(memRead).total_memory = 0)
          => memOut.metrics[<<"memory", "usage", "_percent">>] = F64(0)
    /\ (IsSome(memRead) /\ Unwrap(memRead).total_swap = 0)
          => memOut.metrics[<<"memory", "swap_usage", "_percent">>] = F64(0)
    /\ (diskOut.status = "ok" /\ WrapU64(TotalSpace(mounts)) = 0)
          => diskOut.metrics[<<"disk", "usage", "_percent">>] = F64(0)
    /\ (diskOut.status = "ok" /\ RootEntries(mounts) # {}
          /\ RootFs(mounts).total_space = 0)
          => diskOut.metrics[<<"disk", "root.usage", "_percent">>] = F64(0)

\* A device table without the devices whose name ends in a digit.
WholeOnly(tb) == [d \in {x \in DOMAIN tb : x[Len(x)] \notin Digits} |-> tb[d]]

\* C22: the disk I/O aggregate sums the deltas of the devices whose name does
\* not end in a numeric character and of no other: every I/O rate of a
\* snapshot is the rate that the whole disks alone give, so with sda and sda1
\* showing the same deltas the aggregate is the sda contribution.
C22_PartitionsExcluded ==
    [][(SampleStep /\ subject = "disk" /\ diskOut'.status = "ok"
          /\ RateKeysIn(diskOut') # {}) =>
          LET prev == Unwrap(disk.prev_disk_stats)
              cur  == Unwrap(diskRead').stats
              el   == now' - Unwrap(disk.prev_time)
          IN \A f \in DiskFamilies :
                diskOut'.metrics[<<"disk", f, "_per_sec">>]
                    = AsI64(DiskRate(WholeOnly(prev), WholeOnly(cur), el, f))]_vars

\* sda and its partition sda1 both show every counter at the top of the range,
\* no other disk is there, and the snapshot carries the read rate of sda alone,
\* saturated at the top of the range.
C22_Witness ==
    /\ subject = "disk" /\ diskOut.status = "ok" /\ ~overflow_checks
    /\ DOMAIN Unwrap(diskRead).stats = {Sda, Sda1}
    /\ Unwrap(diskRead).stats[Sda] = StatFull
    /\ Unwrap(diskRead).stats[Sda1] = StatFull
    /\ DiskRateKeys \subseteq DOMAIN diskOut.metrics
    /\ diskOut.metrics[<<"disk", "io_read_ops", "_per_sec">>] = AsI64(U64Max)

\* The DTO value x is the numeric value the snapshot m holds under key, if it
\* holds one.
Kept(m, key, x) == (key \in DOMAIN m /\ m[key].tag \in {"Int", "Float"}) => x = m[key].v

\* C23: every numeric metric that convert_to_response maps into the DTO holds
\* the identical numeric value there (cpu.usage_percent as cpu.overall,
\* memory.used_bytes as memory.used, ...), whatever the value and through the
\* conversions of get_int and get_float.
C23_DtoKeepsValues ==
    IsSome(dto) =>
        LET d == Unwrap(dto)
        IN /\ Kept(snap.cpu, <<"cpu", "usage", "_percent">>, d.cpu.overall)
           /\ \A n \in DOMAIN d.cpu.cores :
                 /\ Kept(snap.cpu, CoreKey(n - 1, "usage_percent"), d.cpu.cores[n].usage)
                 /\ Kept(snap.cpu, CoreKey(n - 1, "frequency_mhz"), d.cpu.cores[n].frequency)
                 /\ IsSome(d.cpu.cores[n].temperature) =>
                       Kept(snap.cpu, <<"cpu", "temperature", "_celsius">>,
                            Unwrap(d.cpu.cores[n].temperature))
           /\ Kept(snap.cpu, <<"cpu", "load_avg", "_1min">>, d.cpu.load_average[1])
           /\ Kept(snap.cpu, <<"cpu", "load_avg", "_5min">>, d.cpu.load_average[2])
           /\ Kept(snap.cpu, <<"cpu", "load_avg", "_15min">>, d.cpu.load_average[3])
           /\ Kept(snap.cpu, <<"cpu", "process", "_count">>, F64(d.cpu.processes))
           /\ Kept(snap.cpu, <<"cpu", "thread", "_count">>, F64(d.cpu.threads))
           /\ Kept(snap.memory, <<"memory", "usage", "_percent">>, d.memory.usage)
           /\ Kept(snap.memory, <<"memory", "used", "_bytes">>, F64(d.memory.used))
           /\ Kept(snap.memory, <<"memory", "total", "_bytes">>, F64(d.memory.total))
           /\ Kept(snap.memory, <<"memory", "swap_used", "_bytes">>, F64(d.memory.swap.used))
           /\ Kept(snap.memory, <<"memory", "swap_total", "_bytes">>,
                   F64(d.memory.swap.total))
           /\ Kept(snap.memory, <<"memory", "swap_usage", "_percent">>,
                   d.memory.swap.percentage)
           /\ Kept(snap.disk, <<"disk", "usage", "_percent">>, d.disk.usage)
           /\ Kept(snap.disk, <<"disk", "used", "_bytes">>, F64(d.disk.used))
           /\ Kept(snap.disk, <<"disk", "total", "_bytes">>, F64(d.disk.total))
           /\ Kept(snap.disk, <<"disk", "io_read_bytes", "_per_sec">>, F64(d.disk.io_read))
           /\ Kept(snap.disk, <<"disk", "io_write_bytes", "_per_sec">>, F64(d.disk.io_write))
           /\ Kept(snap.disk, <<"disk", "io_total_ops", "_per_sec">>, F64(d.disk.iops))
           /\ Kept(snap.network, <<"network", "rx_bytes", "_per_sec">>,
                   F64(d.network.bytes_in))
           /\ Kept(snap.network, <<"network", "tx_bytes", "_per_sec">>,
                   F64(d.network.bytes_out))
           /\ Kept(snap.network, <<"network", "rx_packets", "_per_sec">>,
                   F64(d.network.packets_in))
           /\ Kept(snap.network, <<"network", "tx_packets", "_per_sec">>,
                   F64(d.network.packets_out))
           /\ Kept(snap.network, <<"network", "connections", "_active">>,
                   F64(d.network.connections))
           /\ \A i \in DOMAIN d.accelerators :
                 LET a == d.accelerators[i]
                 IN /\ Kept(snap.gpu, GpuKey(a.id, "gpu_utilization"), a.utilization)
                    /\ Kept(snap.gpu, GpuKey(a.id, "memory_used"), F64(a.memory.used))
                    /\ Kept(snap.gpu, GpuKey(a.id, "memory_total"), F64(a.memory.total))
                    /\ Kept(snap.gpu, GpuKey(a.id, "memory_utilization"), a.memory.percentage)
                    /\ Kept(snap.gpu, GpuKey(a.id, "temperature"), a.temperature)
                    /\ IsSome(a.power) =>
                          Kept(snap.gpu, GpuKey(a.id, "power_usage"), Unwrap(a.power))
                    /\ IsSome(a.fan_speed) =>
                          Kept(snap.gpu, GpuKey(a.id, "fan_speed"), Unwrap(a.fan_speed))

\* ------------------------------------------------- claims on the RPC surface

\* The first segments of the keys of the four domain monitors.
DomainSegments ==
    {<<"c", "p", "u">>, <<"m", "e", "m", "o", "r", "y">>, <<"d", "i", "s", "k">>,
     <<"n", "e", "t", "w", "o", "r", "k">>}

\* A sampled metric whose key does not begin with an underscore.
Public(m) == m.key[1][1] # "_"

\* C24: no item of a GetStats reply has a key that begins with '_' (the
\* _timestamp entry never gets out) or a CPU, memory, disk or network key: the
\* items are, in order, the accelerator metrics of the sample whose key does
\* not begin with '_', each with its value JSON-encoded.
C24_StatsItemsAreAcceleratorMetrics ==
    rpcReply.op = "GetStats" =>
        /\ \A i \in DOMAIN rpcReply.item :
              /\ rpcReply.item[i].key[1][1] # "_"
              /\ rpcReply.item[i].key[1] \notin DomainSegments
              /\ rpcReply.item[i].key[1] = <<"g", "p", "u">>
        /\ Len(rpcReply.item) = Len(SelectSeq(sampled, Public))
        /\ \A i \in DOMAIN rpcReply.item :
              /\ rpcReply.item[i].key = SelectSeq(sampled, Public)[i].key
              /\ rpcReply.item[i].value_json = ToJson(SelectSeq(sampled, Public)[i].value)

\* A GetStats call filtered to device 0 sampled _timestamp, _gpu.count and two
\* metrics of the device, and replied with the two.
C24_Witness ==
    /\ rpcReply.op = "GetStats"
    /\ Len(sampled) = 4 /\ sampled[1].key = TimestampKey /\ sampled[2].key = GpuCountKey
    /\ Len(rpcReply.item) = 2
    /\ rpcReply.item[1].key = GpuStatKey(0, "temperature")

\* C25: no RPC operation (TearDown, GetMetadata, GetStats) reads or changes the
\* rate windows of the domain monitors: every step that is not a sample call
\* of a metrics request leaves the NetworkMonitor and the DiskMonitor and their
\* latest snapshots as they were, so the rates of the HTTP surface are those it
\* would give without the RPC calls.
C25_RpcLeavesWindowsAlone ==
    [][calls' = calls =>
          /\ net' = net /\ netOut' = netOut
          /\ disk' = disk /\ diskOut' = diskOut
          /\ memOut' = memOut]_vars

\* GetStats sampled the accelerators at time 0 and a TearDown returned; the
\* metrics request that followed one tick later measured its rates from the
\* window of time 0.
C25_Witness ==
    /\ rpcReply.op = "GetStats" /\ sampled[1].value = FloatV(F64(0))
    /\ tdReturned
    /\ calls = MaxCalls /\ now > 0
    /\ NetRateKeys \subseteq DOMAIN netOut.metrics
    /\ netRead.rx_packets = 1
    /\ netOut.metrics[<<"network", "rx_packets", "_per_sec">>] = TicksPerSec \div now

\* C26: when the read of the disk I/O counters fails during a sample, the
\* snapshot is produced without any I/O rate key but with disk.total_bytes,
\* disk.used_bytes and disk.usage_percent (whatever filesystems are mounted),
\* the stored window is left as it was, and the next successful sample computes
\* its rates from that window's counters and timestamp.
C26_ReadFailureKeepsWindow ==
    [][(SampleStep /\ subject = "disk") =>
          /\ ~Unwrap(diskRead').ok =>
                /\ diskOut'.status = "ok"
                /\ RateKeysIn(diskOut') = {}
                /\ DiskTotalKeys \subseteq DOMAIN diskOut'.metrics
                /\ disk' = disk
                /\ \A disks \in MountReadings :
                      LET r == DiskGetMetrics(disk, disks, Unwrap(diskRead'), now', FALSE)
                      IN /\ r.status = "ok" /\ r.mon = disk
                         /\ DiskTotalKeys \subseteq DOMAIN r.metrics
                         /\ {k \in DOMAIN r.metrics : IsRateKey(k)} = {}
          /\ (/\ IsSome(diskRead) /\ ~Unwrap(diskRead).ok
              /\ Unwrap(diskRead').ok /\ diskOut'.status = "ok"
              /\ HadWindow /\ now' > WindowTime) =>
                LET prev == Unwrap(disk.prev_disk_stats)
                    cur  == Unwrap(diskRead').stats
                    el   == now' - Unwrap(disk.prev_time)
                IN /\ DiskRateKeys \subseteq DOMAIN diskOut'.metrics
                   /\ \A f \in DiskFamilies :
                         diskOut'.metrics[<<"disk", f, "_per_sec">>]
                             = AsI64(DiskRate(prev, cur, el, f))]_vars

\* A DiskMonitor that holds a window has failed to read the I/O counters on
\* its second call: the snapshot has the usage keys and nothing else, the
\* window is the one of the first call, and a further call can follow.
C26_Witness ==
    /\ subject = "disk" /\ calls = 2 /\ calls < MaxCalls
    /\ ~Unwrap(diskRead).ok
    /\ diskOut.status = "ok"
    /\ DOMAIN diskOut.metrics = DiskTotalKeys \cup DiskRootKeys
    /\ IsSome(disk.prev_disk_stats) /\ IsSome(disk.prev_time)

\* The DTO number x is zero when the snapshot m has no entry under key, and the
\* optional DTO value o is null when m has no entry under key.
ZeroIfAbsent(m, key, x, zero) == key \notin DOMAIN m => x = zero
NullIfAbsent(m, key, o) == key \notin DOMAIN m => o = None

\* C27: the metrics handler answers every request with a response, whatever
\* keys the monitor snapshots lack: in it every required numeric field whose
\* key is absent is 0, and the optional fields (core temperature, accelerator
\* power, accelerator fan speed) are null when their key is absent.
C27_AbsentKeysDefault ==
    IsSome(dto) =>
        LET d == Unwrap(dto)
        IN /\ ZeroIfAbsent(snap.cpu, <<"cpu", "usage", "_percent">>, d.cpu.overall, F64(0))
           /\ \A n \in DOMAIN d.cpu.cores :
                 /\ ZeroIfAbsent(snap.cpu, CoreKey(n - 1, "usage_percent"),
                                 d.cpu.cores[n].usage, F64(0))
                 /\ ZeroIfAbsent(snap.cpu, CoreKey(n - 1, "frequency_mhz"),
                                 d.cpu.cores[n].frequency, F64(0))
                 /\ NullIfAbsent(snap.cpu, <<"cpu", "temperature", "_celsius">>,
                                 d.cpu.cores[n].temperature)
           /\ ZeroIfAbsent(snap.cpu, <<"cpu", "load_avg", "_1min">>,
                           d.cpu.load_average[1], F64(0))
           /\ ZeroIfAbsent(snap.cpu, <<"cpu", "load_avg", "_5min">>,
                           d.cpu.load_average[2], F64(0))
           /\ ZeroIfAbsent(snap.cpu, <<"cpu", "load_avg", "_15min">>,
                           d.cpu.load_average[3], F64(0))
           /\ ZeroIfAbsent(snap.cpu, <<"cpu", "process", "_count">>, d.cpu.processes, 0)
           /\ ZeroIfAbsent(snap.cpu, <<"cpu", "thread", "_count">>, d.cpu.threads, 0)
           /\ ZeroIfAbsent(snap.memory, <<"memory", "usage", "_percent">>,
                           d.memory.usage, F64(0))
           /\ ZeroIfAbsent(snap.memory, <<"memory", "used", "_bytes">>, d.memory.used, 0)
           /\ ZeroIfAbsent(snap.memory, <<"memory", "total", "_bytes">>, d.memory.total, 0)
           /\ ZeroIfAbsent(snap.memory, <<"memory", "swap_used", "_bytes">>,
                           d.memory.swap.used, 0)
           /\ ZeroIfAbsent(snap.memory, <<"memory", "swap_total", "_bytes">>,
                           d.memory.swap.total, 0)
           /\ ZeroIfAbsent(snap.memory, <<"memory", "swap_usage", "_percent">>,
                           d.memory.swap.percentage, F64(0))
           /\ ZeroIfAbsent(snap.disk, <<"disk", "usage", "_percent">>, d.disk.usage, F64(0))
           /\ ZeroIfAbsent(snap.disk, <<"disk", "used", "_bytes">>, d.disk.used, 0)
           /\ ZeroIfAbsent(snap.disk, <<"disk", "total", "_bytes">>, d.disk.total, 0)
           /\ ZeroIfAbsent(snap.disk, <<"disk", "io_read_bytes", "_per_sec">>,
                           d.disk.io_read, 0)
           /\ ZeroIfAbsent(snap.disk, <<"disk", "io_write_bytes", "_per_sec">>,
                           d.disk.io_write, 0)
           /\ ZeroIfAbsent(snap.disk, <<"disk", "io_total_ops", "_per_sec">>, d.disk.iops, 0)
           /\ ZeroIfAbsent(snap.network, <<"network", "rx_bytes", "_per_sec">>,
                           d.network.bytes_in, 0)
           /\ ZeroIfAbsent(snap.network, <<"network", "tx_bytes", "_per_sec">>,
                           d.network.bytes_out, 0)
           /\ ZeroIfAbsent(snap.network, <<"network", "rx_packets", "_per_sec">>,
                           d.network.packets_in, 0)
           /\ ZeroIfAbsent(snap.network, <<"network", "tx_packets", "_per_sec">>,
                           d.network.packets_out, 0)
           /\ ZeroIfAbsent(snap.network, <<"network", "connections", "_active">>,
                           d.network.connections, 0)
           /\ \A i \in DOMAIN d.accelerators :
                 LET a == d.accelerators[i]
                 IN /\ ZeroIfAbsent(snap.gpu, GpuKey(a.id, "gpu_utilization"),
                                    a.utilization, F64(0))
                    /\ ZeroIfAbsent(snap.gpu, GpuKey(a.id, "memory_used"), a.memory.used, 0)
                    /\ ZeroIfAbsent(snap.gpu, GpuKey(a.id, "memory_total"), a.memory.total, 0)
                    /\ ZeroIfAbsent(snap.gpu, GpuKey(a.id, "memory_utilization"),
                                    a.memory.percentage, F64(0))
                    /\ ZeroIfAbsent(snap.gpu, GpuKey(a.id, "temperature"),
                                    a.temperature, F64(0))
                    /\ NullIfAbsent(snap.gpu, GpuKey(a.id, "power_usage"), a.power)
                    /\ NullIfAbsent(snap.gpu, GpuKey(a.id, "fan_speed"), a.fan_speed)

\* A request found the CPU, memory, disk and network snapshots empty and two
\* accelerators with a temperature only: the response has one zeroed core
\* without a temperature, zero gauges, and two accelerators without power and
\* fan speed.
C27_Witness ==
    /\ IsSome(dto)
    /\ snap.cpu = NoMetrics /\ snap.memory = NoMetrics
    /\ snap.disk = NoMetrics /\ snap.network = NoMetrics
    /\ GpuIds(snap.gpu) = {0, 2}
    /\ Unwrap(dto).cpu.cores = <<[id |-> 0, usage |-> F64(0), frequency |-> F64(0),
                                  temperature |-> None]>>
    /\ Unwrap(dto).memory.total = 0 /\ Unwrap(dto).network.connections = 0
    /\ Len(Unwrap(dto).accelerators) = 2
    /\ \A i \in 1..2 : /\ Unwrap(dto).accelerators[i].power = None
                       /\ Unwrap(dto).accelerators[i].utilization = F64(0)

\* The indices named by the keys of m that start with prefix and a "." and
\* whose next segment reads as an unsigned integer, and the ids of the
\* accelerator entries of a response.
KeyIndices(prefix, m) ==
    {Unwrap(ParseUsize(k[2])) :
        k \in {x \in DOMAIN m : x[1] = prefix /\ IsSome(ParseUsize(x[2]))}}
EntryIds(d) == {d.accelerators[i].id : i \in DOMAIN d.accelerators}
NoIdTwice(d) ==
    \A i, j \in DOMAIN d.accelerators :
        d.accelerators[i].id = d.accelerators[j].id => i = j

\* C28 as stated: the response has exactly one accelerator entry for every
\* distinct index that appears in a key accelerator.<index>.<field> of the
\* accelerator snapshot and none for any other index.
C28_EntryPerAcceleratorIndex ==
    IsSome(dto) =>
        /\ EntryIds(Unwrap(dto)) = KeyIndices("accelerator", snap.gpu)
        /\ NoIdTwice(Unwrap(dto))

\* C28 amended: the response has exactly one accelerator entry for every
\* distinct index that appears as the second segment of a key starting with
\* "gpu." of the accelerator snapshot (gpu.<index>.<field>, the index read as
\* an unsigned integer) and none for any other index, so gaps in the index
\* sequence are kept and no index is duplicated.
C28_EntryPerGpuIndex ==
    IsSome(dto) =>
        /\ EntryIds(Unwrap(dto)) = KeyIndices("gpu", snap.gpu)
        /\ NoIdTwice(Unwrap(dto))

\* The accelerator snapshot has keys for the devices 0 and 2 and none for 1:
\* the response lists device 2 before device 0 and nothing else.
C28_Witness ==
    /\ IsSome(dto)
    /\ DOMAIN snap.gpu = {GpuKey(0, "temperature"), GpuKey(2, "temperature"),
                          GpuKey(2, "memory_used")}
    /\ Len(Unwrap(dto).accelerators) = 2
    /\ Unwrap(dto).accelerators[1].id = 2
    /\ Unwrap(dto).accelerators[2].id = 0

\* C29: memory.pressure_high is 1 exactly when the usage percentage of the
\* same snapshot is strictly greater than 90 and 0 otherwise: it is 0 at
\* exactly 90 percent and when total memory is 0.
C29_PressureAboveNinety ==
    memOut.status = "ok" =>
        LET r        == Unwrap(memRead)
            pressure == memOut.metrics[<<"memory", "pressure", "_high">>]
            usage    == memOut.metrics[<<"memory", "usage", "_percent">>]
        IN /\ pressure \in {0, 1}
           /\ pressure = 1 <=> usage[1] > 90 * usage[2]
           /\ r.total_memory = 0 => pressure = 0
           /\ (r.total_memory > 0 /\ 10 * r.used_memory = 9 * r.total_memory) => pressure = 0
           /\ (r.total_memory > 0 /\ 10 * r.used_memory > 9 * r.total_memory) => pressure = 1

\* The memory monitor found 9 of 10 bytes in use: the snapshot says 90 percent
\* and no pressure.
C29_Witness ==
    /\ memOut.status = "ok"
    /\ Unwrap(memRead).total_memory = 10 /\ Unwrap(memRead).used_memory = 9
    /\ memOut.metrics[<<"memory", "usage", "_percent">>] = F64(90)
    /\ memOut.metrics[<<"memory", "pressure", "_high">>] = 0

\* The step sends the shutdown signal from the watchdog, from a TearDown call.
WatchdogSends == wdSends' # wdSends
TearDownSends == \E c \in Clients : tdPc[c] = "take" /\ tdPc'[c] # "take"

\* C30: the watchdog sends the shutdown signal only after its latest poll
\* found the parent gone; it is spawned asleep, so that no liveness check is
\* made before its first sleep has elapsed, and every check ends a sleep; with
\* a parent pid <= 0 it is never started and sends nothing, and every send of
\* the shutdown signal is then made by a TearDown call.
C30_WatchdogFiresOnlyAfterParentGone ==
    /\ [][WatchdogSends => (wd = "firing" /\ wdSawGone /\ ~wdPollAfterGone)]_vars
    /\ [](wd \in {"locking", "firing", "stopped"} => wdSawGone)
    /\ [](mainPc = "new_service" => (wd = "none" /\ ~wdSawGone))
    /\ [][(wd = "none" /\ wd' # "none") => (wd' = "sleeping" /\ ~wdSawGone')]_vars
    /\ [][(wdSawGone' # wdSawGone \/ (wd # "locking" /\ wd' = "locking"))
              => wd = "sleeping"]_vars
    /\ [](args.parent_pid <= 0 => (wd = "none" /\ wdSends = 0 /\ ~wdSawGone))
    /\ [][(args.parent_pid <= 0 /\ sendCount' # sendCount) => TearDownSends]_vars

\* The service was started with the pid of a process that is not its parent:
\* it is serving, the watchdog is in its first sleep, no check has been made
\* and nothing has been sent.
C30_Witness ==
    /\ args.parent_pid = OsPids.stale
    /\ ~IsParentAlive(platform, ppid, args.parent_pid)
    /\ mainPc = "serving" /\ rpc = "serving"
    /\ wd = "sleeping" /\ ~wdSawGone
    /\ sendCount = 0 /\ shutdown_sender = "Some"

\* ------------------------------------------- claims on shutdown and the surfaces

C32_TearDownSendNeverPanics ==
    /\ [](shutdown_sender = "Some" => (chan = "armed" /\ SendResult(chan) = "Ok"))
    /\ [](\A c \in Clients : tdResult[c] # "Panic")
    /\ [][(TearDownSends /\ shutdown_sender = "Some") =>
             (SendResult(chan) = "Ok" /\ chan' = "fired" /\ sendCount' = 1)]_vars

\* A TearDown call has sent the signal and is about to return, the RPC server
\* has consumed it and drains, and both another TearDown call and the watchdog
\* wait for the slot's lock.
C32_Witness ==
    /\ chan = "consumed" /\ rpc = "draining" /\ wdSends = 0 /\ sendCount = 1
    /\ wd = "locking"
    /\ \E c, d \in Clients : tdPc[c] = "return" /\ tdPc[d] = "lock"

\* The metrics handlers that have begun to sample (they are inside their first
\* sample or past it) and have not returned.
MetricsUnderWay ==
    {h \in Handlers : hPc[h].kind = "metrics" /\ (hPc[h].sampling \/ hPc[h].at > 1)}

\* C33: concurrent /api/system/metrics requests are fully serialized: at most
\* one metrics handler at a time is between its first sample and its return,
\* it holds the CPU monitor's guard all that time, and every other metrics
\* handler has taken no sample and holds no guard, so the five samples of one
\* request are all taken before any sample of another.
C33_MetricsRequestsSerialized ==
    /\ Cardinality(MetricsUnderWay) <= 1
    /\ \A h \in MetricsUnderWay : "cpu" \in hHeld[h]
    /\ \A h \in Handlers :
          (hPc[h].kind = "metrics" /\ h \notin MetricsUnderWay) =>
              (hHeld[h] = {} /\ hPc[h].at = 1)

\* One metrics handler is sampling the network monitor with the guards of the
\* CPU, memory and disk monitors still in hand, and two other metrics handlers
\* wait for the CPU monitor's lock without having sampled anything.
C33_Witness ==
    \E a, b, c \in Handlers :
        /\ hPc[a].kind = "metrics" /\ Sampling(a, "network")
        /\ hHeld[a] = {"cpu", "memory", "disk", "network"}
        /\ lockQueue["cpu"] = <<b, c>>
        /\ hPc[b].kind = "metrics" /\ hPc[c].kind = "metrics"

\* Handler h returns in this step from the health route.
HealthAnswered(h) == hPc[h].kind = "health" /\ hPc'[h] = Idle

\* C34: the /api/health handler acquires no monitor lock and touches no
\* monitor state: while it runs it holds no guard and waits in no lock queue,
\* it can complete whatever guards other handlers hold, and its return gives
\* the answer and leaves the monitors, the guards and the queues as they were.
C34_HealthNeedsNoLock ==
    /\ [](\A h \in Handlers : hPc[h].kind = "health" =>
            /\ hHeld[h] = {}
            /\ \A m \in Monitors : \A i \in DOMAIN lockQueue[m] : lockQueue[m][i] # h
            /\ ENABLED health_check(h))
    /\ [][\A h \in Handlers : HealthAnswered(h) =>
            /\ healthSeen' # {}
            /\ UNCHANGED <<monVars, hHeld, lockQueue>>]_vars

\* A health request is in flight while a metrics handler holds the guards of
\* all five monitors and an info handler waits for the accelerator lock.
C34_Witness ==
    \E a, b, c \in Handlers :
        /\ hPc[a].kind = "health"
        /\ hHeld[b] = Monitors
        /\ hPc[c].kind = "info" /\ lockQueue["gpu"] = <<c>>

\* The step is taken by an /api/system/info handler: it starts, takes the
\* accelerator lock, reads the accelerators, or returns.
InfoStep ==
    \E h \in Handlers :
        \/ hPc[h].kind = "info" /\ hPc'[h] # hPc[h]
        \/ hPc[h] = Idle /\ hPc'[h].kind = "info"

\* C35: an /api/system/info handler holds and waits for no lock but the
\* accelerator's, and no step of it changes the NetworkMonitor's or the
\* DiskMonitor's window or latest snapshot: the window a metrics request
\* finds, and with it the rates it reports, is the one the previous metrics
\* request left, however many info requests ran in between.
C35_InfoLeavesMonitorsAlone ==
    /\ [](\A h \in Handlers : hPc[h].kind = "info" =>
            /\ hHeld[h] \subseteq {"gpu"}
            /\ \A m \in Monitors \ {"gpu"} :
                  \A i \in DOMAIN lockQueue[m] : lockQueue[m][i] # h)
    /\ [][InfoStep =>
            /\ net' = net /\ disk' = disk
            /\ netOut' = netOut /\ diskOut' = diskOut
            /\ now' = now /\ calls' = calls]_vars
    /\ [][(SampleStep /\ subject = "network" /\ netOut'.status = "ok") =>
            net.prev_time = Some(0)]_vars

\* The second sample of the NetworkMonitor has measured a packet rate against
\* the window of the first while one info handler reads the accelerators and
\* another waits for their lock.
C35_Witness ==
    /\ calls = MaxCalls /\ subject = "network"
    /\ NetRateKeys \subseteq DOMAIN netOut.metrics
    /\ netOut.metrics[<<"network", "rx_packets", "_per_sec">>] > 0
    /\ \E a, b \in Handlers :
          /\ hPc[a].kind = "info" /\ Sampling(a, "gpu")
          /\ lockQueue["gpu"] = <<b>>

\* The HTTP surface was asked for and main is past the point where it is
\* started, yet no HTTP server is up: the bind of the HTTP port failed.
RestBindFailed ==
    args.enable_rest_api /\ http = "off" /\ mainPc \notin {"new_service", "start_rest"}

\* C36: when the HTTP surface is enabled and the bind of its port fails, main
\* has returned an error without creating the RPC listener: no bind of the RPC
\* transport was attempted, no handshake token was written and the RPC server
\* never started.
C36_RestBindFailureAbortsStartup ==
    RestBindFailed =>
        /\ mainPc = "exited" /\ mainResult = "Err"
        /\ bindAttempts = 0 /\ ~bindFailed /\ listener = "none"
        /\ handshake = NoToken /\ handshakeWrites = 0
        /\ rpc = "not_started"

\* The HTTP bind failed on a machine where the loopback RPC transport was
\* chosen and a watchdog had been spawned; main has returned the error.
C36_Witness ==
    /\ RestBindFailed /\ mainResult = "Err"
    /\ UseTcp(platform, args.listen_on_localhost)
    /\ wd = "sleeping" /\ handshake = NoToken
\* The rate-derived fields of a response: disk ioRead, ioWrite, iops and
\* network bytesIn, bytesOut, packetsIn, packetsOut.
RateFields(r) ==
    <<r.disk.io_read, r.disk.io_write, r.disk.iops, r.network.bytes_in,
      r.network.bytes_out, r.network.packets_in, r.network.packets_out>>

\* The step builds the first response of the service.
FirstResponse == dto = None /\ dto' # None

AlignedPrev(prev, cur) == [d \in DOMAIN cur |-> IF d \in DOMAIN prev THEN prev[d] ELSE cur[d]]

\* A device table cut down to the devices ds.
OnlyDevices(tb, ds) == [d \in DOMAIN tb \cap ds |-> tb[d]]

\* C38: in a disk I/O sample a whole device that is in the current reading
\* but not in the stored previous one adds 0 to every aggregated rate, and a
\* device that is only in the previous reading adds nothing: the rates are
\* those of the devices found in both readings. After the sample the stored
\* reading is the complete current device table, so a device that was new is
\* matched by the following sample.
C38_NewAndGoneDevicesAddNothing ==
    [][(SampleStep /\ subject = "disk" /\ diskOut'.status = "ok" /\ Unwrap(diskRead').ok) =>
          LET cur == Unwrap(diskRead').stats
          IN /\ disk'.prev_disk_stats = Some(cur)
             /\ disk'.prev_time = Some(now')
             /\ RateKeysIn(diskOut') # {} =>
                   LET prev == Unwrap(disk.prev_disk_stats)
                       el   == now' - Unwrap(disk.prev_time)
                       both == DOMAIN prev \cap DOMAIN cur
                   IN \A f \in DiskFamilies :
                         /\ diskOut'.metrics[<<"disk", f, "_per_sec">>]
                               = AsI64(DiskRate(AlignedPrev(prev, cur), cur, el, f))
                         /\ diskOut'.metrics[<<"disk", f, "_per_sec">>]
                               = AsI64(DiskRate(OnlyDevices(prev, both),
                                                OnlyDevices(cur, both), el, f))]_vars

\* The sample after the first one (whose reading had no second disk) found the
\* second disk with every counter at the top of the range while the first
\* disk had done reads and no writes: the snapshot carries a read rate, its
\* write rates are 0, and the stored reading now holds the second disk.
C38_Witness ==
    /\ subject = "disk" /\ calls = 2 /\ diskOut.status = "ok"
    /\ Unwrap(diskRead).ok
    /\ Sdb \in DOMAIN Unwrap(diskRead).stats
    /\ Unwrap(diskRead).stats[Sdb] = StatFull
    /\ Unwrap(diskRead).stats[Sda] = StatRead
    /\ DiskRateKeys \subseteq DOMAIN diskOut.metrics
    /\ diskOut.metrics[<<"disk", "io_read_ops", "_per_sec">>] # 0
    /\ diskOut.metrics[<<"disk", "io_write_ops", "_per_sec">>] = 0
    /\ diskOut.metrics[<<"disk", "io_write_bytes", "_per_sec">>] = 0
    /\ Unwrap(disk.prev_disk_stats)[Sdb] = StatFull

====
